---- MODULE Spec2Model ----
(***************************************************************************)
(* PictureAnnotator: the annotation session engine of the GUI              *)
(* (src/src/picture_annotator/gui/store.py).                               *)
(*                                                                         *)
(* Coordinates are Python floats in the program.  Here they are fixed      *)
(* point: an integer n stands for the pixel coordinate n / Resolution, so  *)
(* with Resolution = 2 the model covers every half pixel.  Floating point  *)
(* rounding, NaN and the infinities are not modelled.                      *)
(*                                                                         *)
(* A JSON value is a tagged record [t |-> <type>, v |-> <value>], so that  *)
(* values of different JSON types can be compared.                         *)
(***************************************************************************)
EXTENDS Integers, Sequences, FiniteSets, TLC

VARIABLES
    imgW,       \* width of the image, in pixels: get_image_size(entry.image_path)[0]
    imgH,       \* height of the image, in pixels
    file,       \* the content of entry.json_path
    tmp,        \* the content of the sibling file entry.json_path + ".tmp"
    session,    \* the AnnotationSession the last successful load returned
    report,     \* the LoadReport the last successful load returned
    lastOp,     \* the operation of AnnotationStore that ran last
    raised,     \* whether that operation ended by raising an exception
    cIn,        \* the rectangle handed to _clamp_bbox or to add_box last
    cOut,       \* the successive results of _clamp_bbox, starting from cIn
    refs,       \* the identity (id()) of each dict of session.detections, in list order
    held,       \* the dict that delete_box removed last, which a caller may still hold
    target,     \* the identity of the dict delete_box was called with last
    everIds,    \* every id a detection of the current session has had so far
    ops,        \* the number of edits and saves so far
    savePc,     \* the position of a save in progress
    saveOld,    \* the content of entry.json_path when the save in progress began
    pathIn,     \* the arguments map_output_path is called with
    pathOut,    \* the path map_output_path returned
    pointer,    \* what the mouse does on the canvas: the handle held, the points of a gesture
    addMode,    \* ImageCanvas._add_mode
    rubberStart, \* ImageCanvas._rubber_start: the press point of a creation gesture
    rubberRect, \* the rect of ImageCanvas._rubber_item
    emitted,    \* the tuples boxCreated was emitted with
    disk,       \* per image of the list, the content of its json_path and of its tmp
    entry,      \* session.entry: the image of the current session
    shown,      \* the rows of MainWindow._images_model: the images the list shows
    listCur,    \* the row of view_images.currentIndex(), 0 when it is invalid
    saveOk,     \* what MainWindow._save_current returned last
    message,    \* the text of the QMessageBox.critical shown last, "" when none was
    boxRows,    \* BoxListModel._detections: the identities of its dicts, by row
    boxCur,     \* the row of view_boxes.currentIndex(), 0 when it is invalid
    boxSel,     \* the row selected in view_boxes, 0 when the selection is empty
    items,      \* ImageCanvas._items: the identity of the dict of each BBoxItem
    canvasSel,  \* the position in items of the selected BBoxItem, 0 when none is
    rounds      \* how often a selection handler ran past its guard in the last event

(* The state of the widgets and of the pure functions of paths.py *)
guiVars == <<pathIn, pathOut, pointer, addMode, rubberStart, rubberRect, emitted, disk, entry,
             shown, listCur, saveOk, message, boxRows, boxCur, boxSel, items, canvasSel,
             rounds>>

vars == <<imgW, imgH, file, tmp, session, report, lastOp, raised, cIn, cOut,
          refs, held, target, everIds, ops, savePc, saveOld, guiVars>>

----------------------------------------------------------------------------
(* Bounds of the model *)

MaxDim == 2     \* largest image width and height, in pixels
MaxDets == 2    \* most entries in the "detections" list of a record on disk
Resolution == 2 \* fixed point: the number of coordinate steps per pixel

(* The float 1.0 of store.py (minimum box size, lowest xmax) in fixed point *)
One == Resolution

Dims == 1..MaxDim
Coords == (0 - 1)..(MaxDim * One + 1)

Max(a, b) == IF b > a THEN b ELSE a
Min(a, b) == IF b < a THEN b ELSE a

----------------------------------------------------------------------------
(* JSON values *)

(* Scalars.  The v of an id is the integer itself; the v of a coordinate   *)
(* or of a score is the number in fixed point (One per unit).              *)
JInt(n) == [t |-> "int", v |-> n]
JFloat(n) == [t |-> "float", v |-> n]
JTrue == [t |-> "bool", v |-> 1]             \* true: the Python bool True
JFalse == [t |-> "bool", v |-> 0]
JHuge == [t |-> "huge", v |-> 0]             \* an int too large for a float
JStr == [t |-> "str", v |-> 0]               \* a string, null, or a missing key

(* The value under "detections" or "bbox" *)
JList(s) == [t |-> "list", v |-> s]
JTuple(s) == [t |-> "tuple", v |-> s]        \* a Python tuple: in memory only
JOther == [t |-> "other", v |-> <<>>]        \* neither a list nor an object
JMissing == [t |-> "missing", v |-> <<>>]    \* the key is not in the object

(* An element of the "detections" list *)
Det(id, bbox, score) == [t |-> "dict", id |-> id, bbox |-> bbox, score |-> score]
NonDict == [t |-> "other", id |-> JStr, bbox |-> JOther, score |-> JStr]

(* isinstance(x, int): a Python bool is an int *)
IsInt(x) == x.t \in {"int", "bool"}

(* isinstance(x, (int, float)) *)
IsNumber(x) == x.t \in {"int", "float", "bool", "huge"}

(* float(x) for a number within float range: True is 1.0 *)
Float(x) == IF x.t = "bool" THEN x.v * One ELSE x.v

(* float(x) raises OverflowError *)
FloatRaises(x) == x.t = "huge"

(* int(x) of an id *)
IntOf(x) == x.v

----------------------------------------------------------------------------
(* store.py: _clamp and AnnotationStore._clamp_bbox *)

(* _clamp without its lower bound *)
_clamp_no_low(value, low, high) == Min(value, high)

_clamp(value, low, high) == Max(low, Min(value, high))

(* _clamp_bbox without the minimum size step of lines 189-194 *)
_clamp_bbox_no_min_size(bbox, width, height) ==
    LET w == width * One
        h == height * One
    IN  <<_clamp(bbox[1], 0, Max(w - One, 0)), _clamp(bbox[2], 0, Max(h - One, 0)),
          _clamp(bbox[3], Min(One, w), w), _clamp(bbox[4], Min(One, h), h)>>

_clamp_bbox(bbox, width, height) ==
    LET w == width * One
        h == height * One
        xmin1 == _clamp(bbox[1], 0, Max(w - One, 0))
        ymin1 == _clamp(bbox[2], 0, Max(h - One, 0))
        xmax1 == _clamp(bbox[3], Min(One, w), w)
        ymax1 == _clamp(bbox[4], Min(One, h), h)
        xmax2 == IF xmax1 - xmin1 < One THEN Min(w, xmin1 + One) ELSE xmax1
        xmin2 == IF xmax1 - xmin1 < One THEN Max(0, xmax2 - One) ELSE xmin1
        ymax2 == IF ymax1 - ymin1 < One THEN Min(h, ymin1 + One) ELSE ymax1
        ymin2 == IF ymax1 - ymin1 < One THEN Max(0, ymax2 - One) ELSE ymin1
    IN  <<xmin2, ymin2, xmax2, ymax2>>

----------------------------------------------------------------------------
(* Records and files *)

(* A record (payload): "detections" and every other top-level key.  The   *)
(* other keys are never read by the program: they are kept as one value.   *)
Rest(w, h, extra) ==
    [format_version |-> "1.0", width |-> w, height |-> h, extra |-> extra]

Payload(rest, detections) == [rest |-> rest, detections |-> detections]

(* _new_payload with width and height exchanged *)
_new_payload_swapped(width, height) == Payload(Rest(height, width, 0), JList(<<>>))

(* store.py: AnnotationStore._new_payload *)
_new_payload(width, height) == Payload(Rest(width, height, 0), JList(<<>>))

(* The content of a path: no file, bytes that are not JSON, bytes cut     *)
(* short by a failed write, or a JSON text (top: the type of its value).   *)
AbsentFile == [kind |-> "absent", top |-> "none", payload |-> _new_payload(0, 0)]
GarbageFile == [kind |-> "garbage", top |-> "none", payload |-> _new_payload(0, 0)]
PartialFile == [kind |-> "partial", top |-> "none", payload |-> _new_payload(0, 0)]
NonObjectFile(top) == [kind |-> "json", top |-> top, payload |-> _new_payload(0, 0)]
JsonFile(payload) == [kind |-> "json", top |-> "object", payload |-> payload]

(* How a write to the disk can end *)
IoOutcomes == {"ok", "open_fails", "write_fails", "replace_fails"}

(* json.dumps(payload) read back as JSON: a tuple is written as an array,  *)
(* every other value as itself.                                            *)
json_dumps(payload) ==
    IF payload.detections.t # "list" THEN payload
    ELSE [payload EXCEPT
            !.detections.v =
               [k \in 1..Len(@) |->
                  IF @[k].bbox.t = "tuple" THEN [@[k] EXCEPT !.bbox.t = "list"] ELSE @[k]]]

(* The three steps of _write_json_atomic on the pair (file at path, file   *)
(* at tmp): tmp.write_text opens tmp, which creates or truncates it, then  *)
(* writes the text; tmp.replace renames tmp over path.                     *)

(* The open of line 200 made on the path itself *)
open_target(path, sibling) == [file |-> PartialFile, tmp |-> sibling]

open_tmp(path, sibling) == [file |-> path, tmp |-> PartialFile]

write_tmp(path, sibling, payload) == [file |-> path, tmp |-> JsonFile(json_dumps(payload))]

replace_tmp(path, sibling) == [file |-> sibling, tmp |-> AbsentFile]

(* store.py: AnnotationStore._write_json_atomic, with the step at which an *)
(* I/O error ends it, if any.                                              *)
_write_json_atomic(path, sibling, payload, io) ==
    LET opened == open_tmp(path, sibling)
        written == write_tmp(opened.file, opened.tmp, payload)
        replaced == replace_tmp(written.file, written.tmp)
    IN  CASE io = "open_fails" -> [raised |-> TRUE, file |-> path, tmp |-> sibling]
          [] io = "write_fails" -> [raised |-> TRUE, file |-> opened.file, tmp |-> opened.tmp]
          [] io = "replace_fails" ->
               [raised |-> TRUE, file |-> written.file, tmp |-> written.tmp]
          [] OTHER -> [raised |-> FALSE, file |-> replaced.file, tmp |-> replaced.tmp]

----------------------------------------------------------------------------
(* store.py: AnnotationStore.load *)

LoadReport(created, failed, dropped, clamped) ==
    [created_new_json |-> created, json_parse_failed |-> failed,
     dropped_invalid |-> dropped, clamped_count |-> clamped]

AnnotationSession(w, h, payload, detections, next_id, dirty) ==
    [width |-> w, height |-> h, payload |-> payload, detections |-> detections,
     next_id |-> next_id, dirty |-> dirty]

(* isinstance(bbox, list) and len(bbox) == 4 and all(isinstance(x, (int, float))) *)
IsBBoxList(bbox) ==
    /\ bbox.t = "list"
    /\ Len(bbox.v) = 4
    /\ \A k \in 1..4 : IsNumber(bbox.v[k])

(* (float(bbox[0]), float(bbox[1]), float(bbox[2]), float(bbox[3])) *)
Floats(bbox) == [k \in 1..4 |-> Float(bbox.v[k])]
FloatsRaise(bbox) == \E k \in 1..4 : FloatRaises(bbox.v[k])

(* [clamped[0], clamped[1], clamped[2], clamped[3]]: a list of floats *)
FloatList(b) == JList([k \in 1..4 |-> JFloat(b[k])])

(* Lines 112-114: the entry after the clamp; its bbox is overwritten when *)
(* the clamp changed it.                                                   *)
clamped_det_never_stored(det, clamped, b) == det

clamped_det(det, clamped, b) ==
    IF clamped # b THEN [det EXCEPT !.bbox = FloatList(clamped)] ELSE det

(* The loop over detections_raw, lines 92-115.  acc.raw is detections_raw *)
(* with the entries the loop changed in place; acc.detections is the new   *)
(* list; an exception ends the loop.                                       *)
RECURSIVE load_loop(_, _, _, _)
load_loop(acc, i, w, h) ==
    IF i > Len(acc.raw) \/ acc.raised THEN acc
    ELSE
      LET det == acc.raw[i]
          drop == [acc EXCEPT !.dropped_invalid = Append(@, det.id)]
      IN  IF det.t # "dict" THEN load_loop(acc, i + 1, w, h)
          ELSE IF ~IsInt(det.id) THEN load_loop(acc, i + 1, w, h)
          ELSE IF ~IsBBoxList(det.bbox) THEN load_loop(drop, i + 1, w, h)
          ELSE IF ~IsNumber(det.score) THEN load_loop(drop, i + 1, w, h)
          ELSE IF FloatsRaise(det.bbox) THEN [acc EXCEPT !.raised = TRUE]
          ELSE
            LET b == Floats(det.bbox)
                clamped == _clamp_bbox(b, w, h)
                det2 == clamped_det(det, clamped, b)
            IN  IF b[1] >= b[3] \/ b[2] >= b[4] THEN load_loop(drop, i + 1, w, h)
                ELSE load_loop(
                       [acc EXCEPT
                          !.raw[i] = det2,
                          !.detections = Append(@, det2),
                          !.clamped_count = IF clamped # b THEN @ + 1 ELSE @],
                       i + 1, w, h)

(* The highest id taken as the number of detections - 1 *)
max_id_by_count(detections) == Len(detections) - 1

(* max((d.get("id", -1) for d in detections if isinstance(d.get("id"), int)), default=-1) *)
max_id(detections) ==
    LET ids == {IntOf(detections[k].id) :
                  k \in {j \in 1..Len(detections) : IsInt(detections[j].id)}}
    IN  IF ids = {} THEN 0 - 1 ELSE CHOOSE m \in ids : \A n \in ids : n <= m

(* Line 129: dirty without the parse failure *)
load_dirty_no_parse(dropped, failed, clamped) == dropped # <<>> \/ clamped # 0

(* Line 129: bool(report.dropped_invalid or report.json_parse_failed or report.clamped_count) *)
load_dirty(dropped, failed, clamped) == dropped # <<>> \/ failed \/ clamped # 0

(* The whole of load.  The result: whether it raised, the session and the *)
(* report it returned (when it did not raise), the files it left.          *)
load(path, sibling, w, h, io) ==
    LET absent == path.kind = "absent"
        failed == path.kind \in {"garbage", "partial"}
        fresh == _new_payload(w, h)
        written == _write_json_atomic(path, sibling, fresh, io)
        payload == IF absent \/ failed THEN fresh ELSE path.payload
        \* payload.get: only a dict has it
        isDict == absent \/ failed \/ path.top = "object"
        raw == IF payload.detections.t = "list" THEN payload.detections.v ELSE <<>>
        out == load_loop([raw |-> raw, detections |-> <<>>, dropped_invalid |-> <<>>,
                          clamped_count |-> 0, raised |-> FALSE], 1, w, h)
        replaced == out.dropped_invalid # <<>> \/ failed
        payload2 == [payload EXCEPT
                       !.detections = IF replaced THEN JList(out.detections)
                                      ELSE IF @.t = "list" THEN JList(out.raw)
                                      ELSE @]
        rep == LoadReport(absent, failed, out.dropped_invalid, out.clamped_count)
        ses == AnnotationSession(w, h, payload2, out.detections,
                                 max_id(out.detections) + 1,
                                 load_dirty(out.dropped_invalid, failed, out.clamped_count))
        files == IF absent THEN written ELSE [raised |-> FALSE, file |-> path, tmp |-> sibling]
    IN  [raised |-> files.raised \/ ~isDict \/ out.raised,
         session |-> ses, report |-> rep, file |-> files.file, tmp |-> files.tmp]

----------------------------------------------------------------------------
(* store.py: AnnotationStore.add_box, delete_box and save *)

(* The ids of a list of detections whose ids are integers *)
IdSet(detections) == {IntOf(detections[k].id) : k \in 1..Len(detections)}

(* The id of a new detection taken as the length of the list *)
add_box_id_by_count(ses, bbox) ==
    LET c == _clamp_bbox(bbox, ses.width, ses.height)
        det == Det(JInt(Len(ses.detections)), FloatList(c), JFloat(One))
    IN  [ses EXCEPT !.next_id = @ + 1, !.detections = Append(@, det), !.dirty = TRUE]

(* add_box with the rectangle stored as it was given *)
add_box_unclamped(ses, bbox) ==
    LET det == Det(JInt(ses.next_id), FloatList(bbox), JFloat(One))
    IN  [ses EXCEPT !.next_id = @ + 1, !.detections = Append(@, det), !.dirty = TRUE]

(* add_box: the session after the call; the detection it returns is the    *)
(* last of the list.  The score is the float 1.0.                          *)
add_box(ses, bbox) ==
    LET c == _clamp_bbox(bbox, ses.width, ses.height)
        det == Det(JInt(ses.next_id), FloatList(c), JFloat(One))
    IN  [ses EXCEPT !.next_id = @ + 1, !.detections = Append(@, det), !.dirty = TRUE]

(* Python's == on two JSON scalars: numbers compare by value whatever      *)
(* their type (1 == 1.0 == True); an int beyond float range equals no float *)
NumEq(x, y) ==
    IF ~(IsNumber(x) /\ IsNumber(y)) THEN x = y
    ELSE IF FloatRaises(x) \/ FloatRaises(y) THEN x.t = y.t
    ELSE Float(x) = Float(y)

(* == on two ids *)
IdEq(x, y) == IF IsInt(x) /\ IsInt(y) THEN IntOf(x) = IntOf(y) ELSE x = y

(* == on two values under "bbox": a list equals a list with equal items,   *)
(* a tuple never equals a list.                                            *)
BBoxEq(a, b) ==
    /\ a.t = b.t
    /\ Len(a.v) = Len(b.v)
    /\ \A k \in 1..Len(a.v) : NumEq(a.v[k], b.v[k])

(* == on two detection dicts: the same keys with equal values *)
DictEq(a, b) ==
    /\ a.t = b.t
    /\ IdEq(a.id, b.id)
    /\ BBoxEq(a.bbox, b.bbox)
    /\ NumEq(a.score, b.score)

(* The search of list.remove(det): the first index whose item is det or    *)
(* equals det, 0 when there is none (ValueError).  ref is the identity of   *)
(* det, itemRefs those of the items.                                       *)
index_of(detections, itemRefs, det, ref) ==
    LET hits == {k \in 1..Len(detections) :
                   itemRefs[k] = ref \/ DictEq(detections[k], det)}
    IN  IF hits = {} THEN 0 ELSE CHOOSE k \in hits : \A j \in hits : k <= j

(* The removal of item k done by moving the last item into its place *)
remove_at_swap_last(q, k) ==
    [j \in 1..(Len(q) - 1) |-> IF j = k THEN q[Len(q)] ELSE q[j]]

(* The removal of list.remove: the items after k move down by one *)
remove_at(q, k) == [j \in 1..(Len(q) - 1) |-> IF j < k THEN q[j] ELSE q[j + 1]]

(* delete_box: the session after the call, given the index list.remove     *)
(* found (0: ValueError, the call returns at once).                        *)
delete_box(ses, k) ==
    IF k = 0 THEN ses
    ELSE [ses EXCEPT !.detections = remove_at(@, k), !.dirty = TRUE]

(* Lines 135-141 of save for one detection: a bbox that is no list of four *)
(* numbers is skipped, any other is replaced by its clamp when they differ *)
save_det_always_stored(det, w, h) ==
    IF ~IsBBoxList(det.bbox) THEN det
    ELSE [det EXCEPT !.bbox = FloatList(_clamp_bbox(Floats(det.bbox), w, h))]

save_det(det, w, h) ==
    IF ~IsBBoxList(det.bbox) THEN det
    ELSE LET b == Floats(det.bbox)
             clamped == _clamp_bbox(b, w, h)
         IN  IF clamped # b THEN [det EXCEPT !.bbox = FloatList(clamped)] ELSE det

(* The loop of save, lines 134-141, over the detections from index i: the  *)
(* list with the detections changed in place; float() of an int beyond     *)
(* float range ends the loop with OverflowError.                           *)
RECURSIVE save_loop(_, _, _, _)
save_loop(acc, i, w, h) ==
    IF i > Len(acc.detections) THEN acc
    ELSE LET det == acc.detections[i]
         IN  IF IsBBoxList(det.bbox) /\ FloatsRaise(det.bbox)
             THEN [acc EXCEPT !.raised = TRUE]
             ELSE save_loop([acc EXCEPT !.detections[i] = save_det(det, w, h)],
                            i + 1, w, h)

(* Lines 134-141 of save without line 143: the record keeps the            *)
(* "detections" list it was loaded with                                    *)
save_prepare_stale_payload(ses) ==
    LET out == save_loop([detections |-> ses.detections, raised |-> FALSE],
                         1, ses.width, ses.height)
    IN  [raised |-> out.raised,
         session |-> [ses EXCEPT !.detections = out.detections]]

(* Lines 134-143 of save: the session with its detections re-clamped and,  *)
(* unless the loop raised, payload["detections"] set to them.              *)
save_prepare(ses) ==
    LET out == save_loop([detections |-> ses.detections, raised |-> FALSE],
                         1, ses.width, ses.height)
    IN  [raised |-> out.raised,
         session |-> IF out.raised
                     THEN [ses EXCEPT !.detections = out.detections]
                     ELSE [ses EXCEPT !.detections = out.detections,
                                      !.payload.detections = JList(out.detections)]]

(* save that writes a fresh record instead of the loaded payload *)
save_fresh_payload(ses, path, sibling, io) ==
    LET prep == save_prepare(ses)
        w == _write_json_atomic(path, sibling,
                 Payload(_new_payload(ses.width, ses.height).rest,
                         prep.session.payload.detections), io)
    IN  IF prep.raised
        THEN [raised |-> TRUE, session |-> prep.session, file |-> path, tmp |-> sibling]
        ELSE [raised |-> w.raised,
              session |-> IF w.raised THEN prep.session
                          ELSE [prep.session EXCEPT !.dirty = FALSE],
              file |-> w.file, tmp |-> w.tmp]

(* save that recomputes next_id from the detections it writes *)
save_renumbering(ses, path, sibling, io) ==
    LET prep == save_prepare(ses)
        w == _write_json_atomic(path, sibling, prep.session.payload, io)
    IN  IF prep.raised
        THEN [raised |-> TRUE, session |-> prep.session, file |-> path, tmp |-> sibling]
        ELSE [raised |-> w.raised,
              session |-> IF w.raised THEN prep.session
                          ELSE [prep.session EXCEPT
                                  !.dirty = FALSE,
                                  !.next_id = max_id(prep.session.detections) + 1],
              file |-> w.file, tmp |-> w.tmp]

(* The whole of save.  mkdir(parents=True, exist_ok=True) of line 145      *)
(* changes no file; its failure is the outcome "open_fails" of the write.  *)
save(ses, path, sibling, io) ==
    LET prep == save_prepare(ses)
        w == _write_json_atomic(path, sibling, prep.session.payload, io)
    IN  IF prep.raised
        THEN [raised |-> TRUE, session |-> prep.session, file |-> path, tmp |-> sibling]
        ELSE [raised |-> w.raised,
              session |-> IF w.raised THEN prep.session
                          ELSE [prep.session EXCEPT !.dirty = FALSE],
              file |-> w.file, tmp |-> w.tmp]

----------------------------------------------------------------------------
(* canvas.py: the corner handles of a BBoxItem *)

(* BBoxItem.constrain_handle: the position a handle is allowed to take     *)
(* when the pointer asks for pos.  tl and br are the positions of the two   *)
(* handles, w and h the size of the image, min_size is 1.0.                *)
constrain_handle_unbounded(corner, pos, tl, br, w, h) == pos

(* constrain_handle that keeps a handle in the image and lets it reach the *)
(* other one                                                               *)
constrain_handle_no_min_size(corner, pos, tl, br, w, h) ==
    IF corner = "tl"
    THEN <<_clamp(pos[1], 0, br[1]), _clamp(pos[2], 0, br[2])>>
    ELSE <<_clamp(pos[1], tl[1], w * One), _clamp(pos[2], tl[2], h * One)>>

constrain_handle(corner, pos, tl, br, w, h) ==
    IF corner = "tl"
    THEN <<_clamp(pos[1], 0, br[1] - One), _clamp(pos[2], 0, br[2] - One)>>
    ELSE <<_clamp(pos[1], tl[1] + One, w * One), _clamp(pos[2], tl[2] + One, h * One)>>

(* BBoxItem.on_handle_moved: det["bbox"] from the two handle positions *)
on_handle_moved(det, tl, br) ==
    [det EXCEPT !.bbox = FloatList(<<tl[1], tl[2], br[1], br[2]>>)]

(* CornerHandle.itemChange for one move of the pointer to pos: the handle  *)
(* takes the constrained position and the detection is rewritten.  The     *)
(* handles stand on the corners of det["bbox"] (update_from_det).  When    *)
(* the constrained position is where the handle stands, setPos returns     *)
(* before ItemPositionHasChanged and the detection is not rewritten.       *)
handle_move(det, corner, pos, w, h) ==
    LET b == Floats(det.bbox)
        tl == <<b[1], b[2]>>
        br == <<b[3], b[4]>>
        p == constrain_handle(corner, pos, tl, br, w, h)
    IN  IF p = (IF corner = "tl" THEN tl ELSE br) THEN det
        ELSE IF corner = "tl" THEN on_handle_moved(det, p, br)
        ELSE on_handle_moved(det, tl, p)

----------------------------------------------------------------------------
(* The records the annotation file can hold when the program starts *)

(* A coordinate on file: an int when it is a whole pixel, else a float *)
J(n) == IF n % One = 0 THEN JInt(n) ELSE JFloat(n)

BBox(x1, y1, x2, y2) == JList(<<J(x1), J(y1), J(x2), J(y2)>>)

BoxUnit == BBox(0, 0, One, One)                    \* in bounds in every image
BoxWide == BBox(0, 0, 2 * One, One)                \* out of bounds when width = 1
BoxOut == BBox(0 - 1, 0 - 1, MaxDim * One + 1, MaxDim * One + 1)  \* out on all sides
BoxThin == BBox(1, 0, One, One)                    \* half a pixel wide
BoxDegenerate == BBox(One, 0, One, One)            \* xmin = xmax
BoxInverted == BBox(0, One, One, 0)                \* ymin > ymax
BoxShort == JList(<<J(0), J(0), J(One)>>)          \* three values
BoxStr == JList(<<J(0), JStr, J(One), J(One)>>)    \* a value that is no number
BoxHuge == JList(<<J(0), J(0), JHuge, J(One)>>)    \* a value beyond float range
BoxBool == JList(<<JFalse, JFalse, JTrue, JTrue>>) \* JSON booleans

Score == JFloat(1)

Entries ==
    {Det(JInt(0), b, Score) :
       b \in {BoxUnit, BoxWide, BoxOut, BoxThin, BoxDegenerate, BoxInverted,
              BoxShort, BoxStr, BoxHuge, BoxBool, JOther}}
    \cup {Det(JInt(1), b, Score) : b \in {BoxUnit, BoxDegenerate}}
    \cup {Det(JInt(0 - 2), BoxUnit, Score)}
    \cup {Det(JStr, b, Score) : b \in {BoxUnit, BoxDegenerate}}
    \cup {Det(JTrue, BoxUnit, Score)}
    \cup {Det(JInt(1), BoxUnit, JStr)}
    \cup {NonDict}

RECURSIVE SeqsUpTo(_, _)
SeqsUpTo(S, n) ==
    IF n = 0 THEN {<<>>}
    ELSE LET shorter == SeqsUpTo(S, n - 1)
         IN  shorter \cup {Append(q, e) : q \in {r \in shorter : Len(r) = n - 1}, e \in S}

(* A record with the given entries *)
EntryFile(w, h, q) == JsonFile(Payload(Rest(w, h, 0), JList(q)))

(* No file, bytes that do not parse, JSON that is no object, an object    *)
(* whose "detections" is missing or no list                                *)
OtherFiles(w, h) ==
    {AbsentFile, GarbageFile}
    \cup {NonObjectFile(top) : top \in {"array", "string", "number", "null"}}
    \cup {JsonFile(Payload(Rest(w, h, extra), d)) : extra \in {0, 1}, d \in {JMissing, JOther}}

----------------------------------------------------------------------------
(* The session engine *)

(* No widget shows anything yet *)
NoGui ==
    /\ pathIn = <<>>
    /\ pathOut = <<>>
    /\ pointer = <<>>
    /\ addMode = FALSE
    /\ rubberStart = <<>>
    /\ rubberRect = <<>>
    /\ emitted = <<>>
    /\ disk = <<>>
    /\ entry = 0
    /\ shown = <<>>
    /\ listCur = 0
    /\ saveOk = TRUE
    /\ message = ""
    /\ boxRows = <<>>
    /\ boxCur = 0
    /\ boxSel = 0
    /\ items = <<>>
    /\ canvasSel = 0
    /\ rounds = 0

(* Nothing was edited or saved yet *)
NoEdits ==
    /\ NoGui
    /\ refs = <<>>
    /\ held = <<>>
    /\ target = 0
    /\ everIds = {}
    /\ ops = 0
    /\ savePc = "idle"
    /\ saveOld = AbsentFile

(* The file holds a record of up to MaxDets entries of every kind, or a   *)
(* record of one entry with any rectangle over Coords, or no record.       *)
InitFile ==
    \/ \E q \in SeqsUpTo(Entries, MaxDets) : file = EntryFile(imgW, imgH, q)
    \/ \E x1 \in Coords, y1 \in Coords, x2 \in Coords, y2 \in Coords :
         file = EntryFile(imgW, imgH, <<Det(JInt(0), BBox(x1, y1, x2, y2), Score)>>)
    \/ file \in OtherFiles(imgW, imgH)

Init ==
    /\ imgW \in Dims
    /\ imgH \in Dims
    /\ InitFile
    /\ tmp = AbsentFile
    /\ session = <<>>
    /\ report = <<>>
    /\ lastOp = "init"
    /\ raised = FALSE
    /\ cIn = <<0, 0, 0, 0>>
    /\ cOut = <<>>
    /\ NoEdits

(* AnnotationStore.load(entry).  The dicts of the new session are new    *)
(* objects; what a caller held of the previous session is let go.          *)
Load ==
    /\ savePc = "idle"
    /\ \E io \in IF file.kind = "absent" THEN IoOutcomes ELSE {"ok"} :
      \E r \in {load(file, tmp, imgW, imgH, io)} :
        /\ lastOp' = "load"
        /\ raised' = r.raised
        /\ file' = r.file
        /\ tmp' = r.tmp
        /\ IF r.raised
           THEN UNCHANGED <<session, report, refs, held, everIds>>
           ELSE /\ session' = <<r.session>>
                /\ report' = <<r.report>>
                /\ refs' = [k \in 1..Len(r.session.detections) |-> k]
                /\ held' = <<>>
                /\ everIds' = IdSet(r.session.detections)
        /\ UNCHANGED <<imgW, imgH, cIn, cOut, target, ops, savePc, saveOld>>
    /\ UNCHANGED guiVars

Next == Load

Spec == Init /\ [][Next]_vars

----------------------------------------------------------------------------
(* The shared clamp as a pure function: _clamp_bbox is applied to any     *)
(* rectangle over Coords, then to its own result.                          *)

InitClamp ==
    /\ imgW \in Dims
    /\ imgH \in Dims
    /\ cIn \in [1..4 -> Coords]
    /\ cOut = <<>>
    /\ file = AbsentFile
    /\ tmp = AbsentFile
    /\ session = <<>>
    /\ report = <<>>
    /\ lastOp = "init"
    /\ raised = FALSE
    /\ NoEdits

ClampStep ==
    /\ Len(cOut) < 2
    /\ cOut' = Append(cOut, _clamp_bbox(IF cOut = <<>> THEN cIn ELSE cOut[Len(cOut)],
                                        imgW, imgH))
    /\ UNCHANGED <<imgW, imgH, cIn, file, tmp, session, report, lastOp, raised,
                   refs, held, target, everIds, ops, savePc, saveOld>>
    /\ UNCHANGED guiVars

NextClamp == ClampStep

SpecClamp == InitClamp /\ [][NextClamp]_vars

----------------------------------------------------------------------------
(* Editing: a session is loaded, boxes are added, deleted and dragged by   *)
(* their corner handles, and the session is saved.                         *)

MaxBoxes == 3   \* most detections in a session: add_box is not called beyond
MaxOps == 2     \* most edits and saves in one run

(* The "detections" lists of the records on file: none, one entry, the   *)
(* same entry twice, two entries with the same rectangle, an entry out of  *)
(* bounds in a narrow image before one with a lower id, an entry that load *)
(* drops.                                                                  *)
EditLists ==
    {<<>>,
     <<Det(JInt(0), BoxUnit, Score)>>,
     <<Det(JInt(0), BoxUnit, Score), Det(JInt(0), BoxUnit, Score)>>,
     <<Det(JInt(0), BoxUnit, Score), Det(JInt(1), BoxUnit, Score)>>,
     <<Det(JInt(2), BoxWide, Score), Det(JInt(1), BoxUnit, Score)>>,
     <<Det(JInt(1), BoxDegenerate, Score), Det(JInt(0), BoxUnit, Score)>>}

(* The image is one pixel or MaxDim pixels wide, and as high *)
EditDims == {1, MaxDim}

(* A record with a top-level key the program does not know *)
EditFile(w, h, q) == JsonFile(Payload(Rest(w, h, 1), JList(q)))

(* The rectangles handed to add_box: out of bounds and too thin, in bounds *)
(* in every image, inverted and beyond the far edges.                      *)
AddRects ==
    {<<0 - 1, 0 - 1, 1, 1>>, <<0, 0, One, One>>,
     <<MaxDim * One + 1, MaxDim * One + 1, 0, 0>>}

(* The pointer positions a handle is dragged to, on each axis: before the  *)
(* image, inside it, beyond it.                                            *)
DragCoords == {0 - 1, One + 1, MaxDim * One + 1}

InitEdit ==
    /\ imgW \in EditDims
    /\ imgH \in EditDims
    /\ \/ \E q \in EditLists : file = EditFile(imgW, imgH, q)
       \/ file \in {AbsentFile, GarbageFile}
    /\ tmp = AbsentFile
    /\ session = <<>>
    /\ report = <<>>
    /\ lastOp = "init"
    /\ raised = FALSE
    /\ cIn = <<0, 0, 0, 0>>
    /\ cOut = <<>>
    /\ NoEdits

(* An edit or a save can start *)
CanEdit == session # <<>> /\ savePc = "idle" /\ ops < MaxOps

(* The identity of a dict that is created now *)
FreshRef ==
    LET used == {refs[k] : k \in 1..Len(refs)} \cup {held[k].ref : k \in 1..Len(held)}
    IN  IF used = {} THEN 1 ELSE 1 + CHOOSE m \in used : \A n \in used : n <= m

(* AnnotationStore.add_box(session, bbox) *)
AddBox ==
    /\ CanEdit
    /\ Len(session[1].detections) < MaxBoxes
    /\ \E bbox \in AddRects :
         /\ cIn' = bbox
         /\ session' = <<add_box(session[1], bbox)>>
         /\ refs' = Append(refs, FreshRef)
         /\ everIds' = everIds \cup IdSet(session'[1].detections)
    /\ lastOp' = "add_box"
    /\ raised' = FALSE
    /\ ops' = ops + 1
    /\ UNCHANGED <<imgW, imgH, file, tmp, report, cOut, held, target, savePc, saveOld>>
    /\ UNCHANGED guiVars

(* The dicts delete_box can be called with: a member of the list, the dict *)
(* removed last, or a copy of a member (ref 0: a dict that never was in    *)
(* the list).                                                              *)
DeleteTargets ==
    {[ref |-> refs[k], det |-> session[1].detections[k]] : k \in 1..Len(refs)}
    \cup {held[k] : k \in 1..Len(held)}
    \cup {[ref |-> 0, det |-> session[1].detections[k]] : k \in 1..Len(refs)}

(* AnnotationStore.delete_box(session, det) *)
DeleteBox ==
    /\ CanEdit
    /\ \E arg \in DeleteTargets :
         \E k \in {index_of(session[1].detections, refs, arg.det, arg.ref)} :
           /\ target' = arg.ref
           /\ session' = <<delete_box(session[1], k)>>
           /\ refs' = IF k = 0 THEN refs ELSE remove_at(refs, k)
           /\ held' = IF k = 0 THEN held
                      ELSE <<[ref |-> refs[k], det |-> session[1].detections[k]]>>
    /\ lastOp' = "delete_box"
    /\ raised' = FALSE
    /\ ops' = ops + 1
    /\ UNCHANGED <<imgW, imgH, file, tmp, report, cIn, cOut, everIds, savePc, saveOld>>
    /\ UNCHANGED guiVars

(* A corner handle of the box of detection k is dragged to pos and let go: *)
(* CornerHandle.itemChange, then mouseReleaseEvent, BBoxItem.notify_edited *)
(* and MainWindow._on_box_edited, which sets dirty.                        *)
DragHandle ==
    /\ CanEdit
    /\ \E k \in 1..Len(session[1].detections), corner \in {"tl", "br"},
          x \in DragCoords, y \in DragCoords :
         session' = <<[session[1] EXCEPT
                         !.detections[k] = handle_move(@, corner, <<x, y>>, imgW, imgH),
                         !.dirty = TRUE]>>
    /\ lastOp' = "drag"
    /\ raised' = FALSE
    /\ ops' = ops + 1
    /\ UNCHANGED <<imgW, imgH, file, tmp, report, cIn, cOut, refs, held, target,
                   everIds, savePc, saveOld>>
    /\ UNCHANGED guiVars

(* AnnotationStore.save(session) *)
Save ==
    /\ CanEdit
    /\ \E io \in IoOutcomes :
         \E r \in {save(session[1], file, tmp, io)} :
           /\ session' = <<r.session>>
           /\ file' = r.file
           /\ tmp' = r.tmp
           /\ raised' = r.raised
    /\ lastOp' = "save"
    /\ ops' = ops + 1
    /\ UNCHANGED <<imgW, imgH, report, cIn, cOut, refs, held, target, everIds,
                   savePc, saveOld>>
    /\ UNCHANGED guiVars

NextEdit == Load \/ AddBox \/ DeleteBox \/ DragHandle \/ Save

SpecEdit == InitEdit /\ [][NextEdit]_vars

----------------------------------------------------------------------------
(* Properties *)

(* The last operation was a load and it returned *)
Loaded == lastOp = "load" /\ ~raised

(* The entries of the "detections" list of the record on file *)
FileEntries ==
    IF file.kind = "json" /\ file.top = "object" /\ file.payload.detections.t = "list"
    THEN file.payload.detections.v
    ELSE <<>>

InBounds(b, w, h) ==
    /\ 0 <= b[1] /\ b[1] < b[3] /\ b[3] <= w * One
    /\ 0 <= b[2] /\ b[2] < b[4] /\ b[4] <= h * One
    /\ b[3] - b[1] >= One
    /\ b[4] - b[2] >= One

(* C1: every detection that survives load lies within the image, with     *)
(* 0 <= xmin < xmax <= W, 0 <= ymin < ymax <= H and both sides >= 1.       *)
C1_LoadedInBounds ==
    Loaded =>
      \A k \in 1..Len(session[1].detections) :
        InBounds(Floats(session[1].detections[k].bbox), imgW, imgH)

(* A rectangle that was out of bounds and thinner than a pixel survived *)
C1_Witness ==
    /\ Loaded
    /\ Len(session[1].detections) = 1
    /\ report[1].clamped_count = 1
    /\ Len(FileEntries) = 1
    /\ \E e \in {FileEntries[1]} :
         /\ Float(e.bbox.v[1]) < 0
         /\ Float(e.bbox.v[4]) > imgH * One
         /\ Float(e.bbox.v[3]) - Float(e.bbox.v[1]) < One

(* C2: no two detections of the session have the same id. *)
C2_UniqueIds ==
    session # <<>> =>
      \A j, k \in 1..Len(session[1].detections) :
        j # k => session[1].detections[j].id # session[1].detections[k].id

(* C3: load does not raise whatever the record file holds (a load that    *)
(* found a file did not have to write one, so no disk error is involved).  *)
C3_LoadNeverRaisesOnContent ==
    lastOp = "load" /\ file.kind # "absent" => ~raised

(* isinstance(det, dict): a candidate entry *)
IsDict(e) == e.t = "dict"

(* C4: after load, dirty is true exactly when an entry (an object of the  *)
(* "detections" list) was dropped, the file failed to parse or a box was   *)
(* clamped.                                                                *)
C4_DirtyIffRepaired ==
    Loaded =>
      (session[1].dirty <=>
         \/ Len(SelectSeq(FileEntries, IsDict)) > Len(session[1].detections)
         \/ report[1].json_parse_failed
         \/ report[1].clamped_count > 0)

(* C5: a load that finds no file leaves a record with no detections and   *)
(* the image's width and height at the path, and returns an empty session  *)
(* with next_id = 0, created_new_json true and json_parse_failed false.    *)
C5_AbsentCreatesRecord ==
    [][file.kind = "absent" /\ lastOp' = "load" /\ ~raised' =>
         /\ file'.kind = "json" /\ file'.top = "object"
         /\ file'.payload.detections = JList(<<>>)
         /\ file'.payload.rest.width = imgW
         /\ file'.payload.rest.height = imgH
         /\ file'.payload.rest.format_version = "1.0"
         /\ session'[1].detections = <<>>
         /\ session'[1].next_id = 0
         /\ report'[1].created_new_json
         /\ ~report'[1].json_parse_failed]_vars

(* A load created the record of an image that is not square *)
C5_Witness ==
    /\ Loaded
    /\ report[1].created_new_json
    /\ file.kind = "json"
    /\ imgW # imgH

(* C6: a load of a file that does not parse returns an empty session with *)
(* next_id = 0, json_parse_failed true, created_new_json false, dirty.     *)
C6_ParseFailureRecovers ==
    Loaded /\ file.kind = "garbage" =>
      /\ session[1].detections = <<>>
      /\ session[1].payload.detections = JList(<<>>)
      /\ session[1].next_id = 0
      /\ report[1].json_parse_failed
      /\ ~report[1].created_new_json
      /\ report[1].dropped_invalid = <<>>
      /\ session[1].dirty

C6_Witness == Loaded /\ file.kind = "garbage" /\ session[1].dirty

(* The validation rules as the claim states them, on JSON types: true and *)
(* false are neither integers nor numbers.                                 *)
C7_IsInteger(x) == x.t = "int"
C7_IsNumeric(x) == x.t \in {"int", "float", "huge"}
C7_HasIntegerId(e) == e.t = "dict" /\ C7_IsInteger(e.id)
C7_Valid(e) ==
    /\ e.bbox.t = "list"
    /\ Len(e.bbox.v) = 4
    /\ \A k \in 1..4 : C7_IsNumeric(e.bbox.v[k])
    /\ C7_IsNumeric(e.score)
    /\ e.bbox.v[1].v < e.bbox.v[3].v
    /\ e.bbox.v[2].v < e.bbox.v[4].v
C7_Survives(e) == C7_HasIntegerId(e) /\ C7_Valid(e)
C7_Recorded(e) == C7_HasIntegerId(e) /\ ~C7_Valid(e)
Ids(dets) == [k \in 1..Len(dets) |-> dets[k].id]

(* C7: the entries that survive load are those with an integer id, a bbox *)
(* of four numbers, a numeric score and ordered corners; the ids recorded  *)
(* in dropped_invalid are those of the other entries with an integer id.   *)
C7_ValidationRules ==
    Loaded =>
      /\ Ids(session[1].detections) = Ids(SelectSeq(FileEntries, C7_Survives))
      /\ report[1].dropped_invalid = Ids(SelectSeq(FileEntries, C7_Recorded))

(* The strictly increasing maps from 1..n into 1..m *)
Increasing(n, m) ==
    {f \in [1..n -> 1..m] : \A j, k \in 1..n : j < k => f[j] < f[k]}

(* C8: clamped_count is the number of surviving entries that the clamp    *)
(* changes; each of them holds the clamped bbox and every other surviving  *)
(* entry holds the bbox it has on file.                                    *)
C8_ClampedCount ==
    Loaded =>
      \E f \in Increasing(Len(session[1].detections), Len(FileEntries)) :
        /\ \A k \in DOMAIN f :
             \E e \in {FileEntries[f[k]]}, d \in {session[1].detections[k]} :
               /\ e.t = "dict" /\ IsBBoxList(e.bbox)
               /\ d.id = e.id /\ d.score = e.score
               /\ \E b \in {Floats(e.bbox)} :
                    IF _clamp_bbox(b, imgW, imgH) # b
                    THEN d.bbox = FloatList(_clamp_bbox(b, imgW, imgH))
                    ELSE d.bbox = e.bbox
        /\ report[1].clamped_count =
             Cardinality({k \in DOMAIN f :
                            _clamp_bbox(Floats(FileEntries[f[k]].bbox), imgW, imgH)
                              # Floats(FileEntries[f[k]].bbox)})

(* Two entries survived: one was clamped, the other kept its bbox *)
C8_Witness ==
    /\ Loaded
    /\ Len(session[1].detections) = 2
    /\ report[1].clamped_count = 1
    /\ \E k \in 1..2 : session[1].detections[k].bbox = BoxUnit

(* C9: after load next_id is one more than the highest surviving id, and  *)
(* 0 when no detection survives.                                           *)
C9_NextId ==
    Loaded =>
      IF session[1].detections = <<>>
      THEN session[1].next_id = 0
      ELSE /\ \A k \in 1..Len(session[1].detections) :
                IntOf(session[1].detections[k].id) < session[1].next_id
           /\ \E k \in 1..Len(session[1].detections) :
                IntOf(session[1].detections[k].id) = session[1].next_id - 1

(* An entry with a higher id than the surviving one was dropped *)
C9_Witness ==
    /\ Loaded
    /\ Len(session[1].detections) = 1
    /\ Len(report[1].dropped_invalid) = 1
    /\ IntOf(report[1].dropped_invalid[1]) > IntOf(session[1].detections[1].id)
    /\ session[1].next_id = 0 - 1

(* C10: _clamp_bbox applied to its own result returns that result. *)
C10_ClampIdempotent ==
    Len(cOut) = 2 => cOut[2] = cOut[1]

(* An inverted rectangle out of bounds was clamped twice *)
C10_Witness ==
    /\ Len(cOut) = 2
    /\ cIn[1] > cIn[3]
    /\ cIn[2] < 0
    /\ cIn[4] > imgH * One
    /\ cOut[1] # cIn

----------------------------------------------------------------------------
(* Properties of editing *)

(* The session before and after a step *)
Before == session[1]
After == session'[1]

(* The step is an edit or a save of a loaded session *)
Edited == session # <<>> /\ lastOp' \in {"add_box", "delete_box", "drag", "save"}

LastDet(ses) == ses.detections[Len(ses.detections)]

(* C11: add_box appends exactly one detection at the end of the list, with *)
(* id = next_id before the call, bbox = clamp(bbox, width, height) and      *)
(* score 1.0; it increments next_id by 1 and sets dirty; the detection it   *)
(* returns is the appended one.                                            *)
C11_AddBoxAppends ==
    [][lastOp' = "add_box" =>
         /\ After.detections =
              Append(Before.detections,
                     Det(JInt(Before.next_id),
                         FloatList(_clamp_bbox(cIn', Before.width, Before.height)),
                         JFloat(One)))
         /\ Len(refs') = Len(refs) + 1
         /\ After.next_id = Before.next_id + 1
         /\ After.dirty]_vars

(* A rectangle out of bounds and thinner than a pixel was added as the     *)
(* third box of a session and stored as the first pixel of the image       *)
C11_Witness ==
    /\ lastOp = "add_box"
    /\ cIn = <<0 - 1, 0 - 1, 1, 1>>
    /\ Len(session[1].detections) = 3
    /\ LastDet(session[1]).bbox = FloatList(<<0, 0, One, One>>)
    /\ LastDet(session[1]).score = JFloat(One)

(* Every detection of the session satisfies the geometry invariants *)
AllInBounds(ses) ==
    \A k \in 1..Len(ses.detections) :
      /\ IsBBoxList(ses.detections[k].bbox)
      /\ ~FloatsRaise(ses.detections[k].bbox)
      /\ InBounds(Floats(ses.detections[k].bbox), ses.width, ses.height)

C13_DeleteIdempotent ==
    [][lastOp' = "delete_box" =>
         /\ (\A k \in 1..Len(refs) : refs[k] # target') =>
              /\ After = Before
              /\ refs' = refs
         /\ After.dirty # Before.dirty => Len(After.detections) < Len(Before.detections)]_vars

(* The position of identity r in a list of identities *)
Place(q, r) == CHOOSE k \in 1..Len(q) : q[k] = r

RefSet(q) == {q[k] : k \in 1..Len(q)}

(* C14: the id of a newly added detection differs from the id of every     *)
(* detection that was ever in the session, deleted ones included; next_id  *)
(* never decreases and is greater than every id in the list.               *)
C14_IdsNeverReused ==
    [][Edited =>
         /\ lastOp' = "add_box" => IntOf(LastDet(After).id) \notin everIds
         /\ After.next_id >= Before.next_id
         /\ \A k \in 1..Len(After.detections) :
              IntOf(After.detections[k].id) < After.next_id]_vars

(* A box was added after the detection with the highest id was deleted *)
C14_Witness ==
    /\ lastOp = "add_box"
    /\ session[1].next_id - 2 \in everIds
    /\ session[1].next_id - 2 \notin IdSet(session[1].detections)

(* C15: after any add_box, delete_box, drag or save the detections that    *)
(* were present and still are keep their relative order; add_box appends   *)
(* one at the end, delete_box removes at most one, drag and save none.     *)
C15_OrderKept ==
    [][Edited =>
         /\ \A r1 \in RefSet(refs) \cap RefSet(refs'), r2 \in RefSet(refs) \cap RefSet(refs') :
              /\ Place(refs, r1) < Place(refs, r2) => Place(refs', r1) < Place(refs', r2)
              /\ After.detections[Place(refs', r1)].id = Before.detections[Place(refs, r1)].id
         /\ Len(After.detections) = Len(refs')
         /\ lastOp' = "add_box" =>
              \E r \in RefSet(refs') \ RefSet(refs) : refs' = Append(refs, r)
         /\ lastOp' = "delete_box" =>
              /\ RefSet(refs') \subseteq RefSet(refs)
              /\ Len(refs') >= Len(refs) - 1
         /\ lastOp' \in {"drag", "save"} => refs' = refs]_vars

(* The first of three detections was deleted: the two after it moved down  *)
(* in their order                                                          *)
C15_Witness ==
    /\ lastOp = "delete_box"
    /\ refs = <<2, 3>>
    /\ IntOf(session[1].detections[1].id) < IntOf(session[1].detections[2].id)

(* The scores of a list of detections *)
Scores(dets) == [k \in 1..Len(dets) |-> dets[k].score]

(* C17: a save that succeeds sets dirty to false and leaves next_id, the   *)
(* ids, the scores and the order of the detections unchanged; the add_box  *)
(* that follows a save allocates the id next_id had at the save.           *)
C17_SaveKeepsSession ==
    [][/\ session # <<>> /\ lastOp' = "save" /\ ~raised' =>
            /\ ~After.dirty
            /\ After.next_id = Before.next_id
            /\ Ids(After.detections) = Ids(Before.detections)
            /\ Scores(After.detections) = Scores(Before.detections)
            /\ refs' = refs
       /\ lastOp = "save" /\ ~raised /\ lastOp' = "add_box" =>
            LastDet(After).id = JInt(Before.next_id)]_vars

(* A session whose detection with the highest id was deleted has been saved *)
C17_Witness ==
    /\ lastOp = "save"
    /\ ~raised
    /\ ~session[1].dirty
    /\ session[1].next_id - 1 \in everIds
    /\ session[1].next_id - 1 \notin IdSet(session[1].detections)

(* An entry of a record that is valid and in bounds *)
EntryInBounds(e, w, h) ==
    /\ e.t = "dict"
    /\ e.id.t = "int"
    /\ IsBBoxList(e.bbox)
    /\ \A k \in 1..4 : e.bbox.v[k].t \in {"int", "float"}
    /\ e.score.t \in {"int", "float"}
    /\ InBounds(Floats(e.bbox), w, h)

(* The file holds a record whose entries are all valid and in bounds *)
RecordInBounds ==
    /\ file.kind = "json"
    /\ file.top = "object"
    /\ file.payload.detections.t = "list"
    /\ \A k \in 1..Len(FileEntries) : EntryInBounds(FileEntries[k], imgW, imgH)

(* C19: a record whose entries are all valid and in bounds is loaded with  *)
(* no drop and clamped_count = 0, and saving the session without any       *)
(* mutation writes a record equal to it.                                   *)
C19_RoundTrip ==
    [][Loaded /\ RecordInBounds =>
         /\ report[1].dropped_invalid = <<>>
         /\ report[1].clamped_count = 0
         /\ lastOp' = "save" /\ ~raised' => file' = file]_vars

(* A record of two entries was loaded and saved at once, and is on file as *)
(* it was                                                                  *)
C19_Witness ==
    /\ lastOp = "save"
    /\ ~raised
    /\ ops = 1
    /\ report[1].clamped_count = 0
    /\ file = EditFile(imgW, imgH,
                       <<Det(JInt(0), BoxUnit, Score), Det(JInt(1), BoxUnit, Score)>>)

(* The file holds a record that parses: a JSON object *)
Parses == file.kind = "json" /\ file.top = "object"

(* C20: the top-level keys other than "detections" of a record that parses *)
(* are in the loaded session with their values, stay there through add_box, *)
(* delete_box, drags and save, and are in the record save writes.          *)
C20_OtherKeysKept ==
    [][/\ Parses /\ lastOp' = "load" /\ ~raised' =>
            After.payload.rest = file.payload.rest
       /\ Edited => After.payload.rest = Before.payload.rest
       /\ session # <<>> /\ lastOp' = "save" /\ ~raised' =>
            /\ file'.kind = "json"
            /\ file'.top = "object"
            /\ file'.payload.rest = Before.payload.rest
       /\ Parses /\ file' # file => file'.payload.rest = file.payload.rest]_vars

(* A record with an unknown key was saved with a box added to it, and      *)
(* holds the key                                                           *)
C20_Witness ==
    /\ lastOp = "save"
    /\ ~raised
    /\ Len(FileEntries) = 3
    /\ file.payload.rest = Rest(imgW, imgH, 1)

----------------------------------------------------------------------------
(* Out-of-band mutation: code outside the store assigns det["bbox"] of a   *)
(* detection of the session, then the session is saved.                    *)

(* The values assigned: lists of four numbers out of bounds, too thin or   *)
(* inverted, the same as a tuple, a list of three, a list with an int      *)
(* beyond float range.                                                     *)
MutatedBoxes ==
    {BoxOut, BoxThin, BoxInverted, JTuple(BoxOut.v), BoxShort, BoxHuge}

(* session.detections[k]["bbox"] = b *)
Mutate ==
    /\ CanEdit
    /\ \E k \in 1..Len(session[1].detections), b \in MutatedBoxes :
         session' = <<[session[1] EXCEPT !.detections[k].bbox = b]>>
    /\ lastOp' = "mutate"
    /\ raised' = FALSE
    /\ ops' = ops + 1
    /\ UNCHANGED <<imgW, imgH, file, tmp, report, cIn, cOut, refs, held, target,
                   everIds, savePc, saveOld>>
    /\ UNCHANGED guiVars

NextSave == Load \/ Mutate \/ Save

SpecSave == InitEdit /\ [][NextSave]_vars

(* C18: for any in-memory bbox, out-of-band mutations included, the record *)
(* a save writes holds clamp(bbox, width, height): every detection of a     *)
(* saved record is within the image and at least one pixel wide and high.  *)
C18_SavedRecordClamped ==
    [][session # <<>> /\ lastOp' = "save" /\ ~raised' =>
         /\ file'.kind = "json"
         /\ Len(file'.payload.detections.v) = Len(Before.detections)
         /\ \A k \in 1..Len(Before.detections) :
              /\ IsBBoxList(file'.payload.detections.v[k].bbox)
              /\ InBounds(Floats(file'.payload.detections.v[k].bbox), imgW, imgH)
              /\ Len(Before.detections[k].bbox.v) = 4 =>
                   Floats(file'.payload.detections.v[k].bbox) =
                     _clamp_bbox(Floats(Before.detections[k].bbox), imgW, imgH)]_vars

----------------------------------------------------------------------------
(* A save step by step: the process can die, or an I/O error can end the   *)
(* save, between any two steps of save and _write_json_atomic.  savePc is   *)
(* "idle" (no save runs), "prepared" (lines 134-145 done), "opened" (tmp    *)
(* created or truncated), "written" (the text is in tmp) or "crashed".     *)

Saving == savePc \in {"prepared", "opened", "written"}

(* save, lines 134-145: the detections are re-clamped in memory and        *)
(* payload["detections"] is set; no file is touched yet.                   *)
SaveBegin ==
    /\ CanEdit
    /\ \E prep \in {save_prepare(session[1])} :
         /\ session' = <<prep.session>>
         /\ raised' = prep.raised
         /\ savePc' = IF prep.raised THEN "idle" ELSE "prepared"
    /\ saveOld' = file
    /\ lastOp' = "save"
    /\ ops' = ops + 1
    /\ UNCHANGED <<imgW, imgH, file, tmp, report, cIn, cOut, refs, held, target, everIds>>
    /\ UNCHANGED guiVars

(* Line 200, tmp.write_text: the open *)
SaveOpen ==
    /\ savePc = "prepared"
    /\ \E r \in {open_tmp(file, tmp)} : file' = r.file /\ tmp' = r.tmp
    /\ savePc' = "opened"
    /\ UNCHANGED <<imgW, imgH, session, report, lastOp, raised, cIn, cOut, refs, held,
                   target, everIds, ops, saveOld>>
    /\ UNCHANGED guiVars

(* Line 200, tmp.write_text: the write and the close *)
SaveWrite ==
    /\ savePc = "opened"
    /\ \E r \in {write_tmp(file, tmp, session[1].payload)} : file' = r.file /\ tmp' = r.tmp
    /\ savePc' = "written"
    /\ UNCHANGED <<imgW, imgH, session, report, lastOp, raised, cIn, cOut, refs, held,
                   target, everIds, ops, saveOld>>
    /\ UNCHANGED guiVars

(* Line 201, tmp.replace(path), then line 147 of save *)
SaveReplace ==
    /\ savePc = "written"
    /\ \E r \in {replace_tmp(file, tmp)} : file' = r.file /\ tmp' = r.tmp
    /\ session' = <<[session[1] EXCEPT !.dirty = FALSE]>>
    /\ savePc' = "idle"
    /\ UNCHANGED <<imgW, imgH, report, lastOp, raised, cIn, cOut, refs, held, target,
                   everIds, ops, saveOld>>
    /\ UNCHANGED guiVars

(* The step that comes next raises OSError: save ends there *)
SaveFails ==
    /\ Saving
    /\ raised' = TRUE
    /\ savePc' = "idle"
    /\ UNCHANGED <<imgW, imgH, file, tmp, session, report, lastOp, cIn, cOut, refs, held,
                   target, everIds, ops, saveOld>>
    /\ UNCHANGED guiVars

(* The process dies during a save: the files stay as they are *)
Crash ==
    /\ Saving
    /\ savePc' = "crashed"
    /\ UNCHANGED <<imgW, imgH, file, tmp, session, report, lastOp, raised, cIn, cOut,
                   refs, held, target, everIds, ops, saveOld>>
    /\ UNCHANGED guiVars

(* The program is started again: nothing is in memory *)
Restart ==
    /\ savePc = "crashed"
    /\ savePc' = "idle"
    /\ session' = <<>>
    /\ report' = <<>>
    /\ refs' = <<>>
    /\ held' = <<>>
    /\ everIds' = {}
    /\ lastOp' = "init"
    /\ raised' = FALSE
    /\ UNCHANGED <<imgW, imgH, file, tmp, cIn, cOut, target, ops, saveOld>>
    /\ UNCHANGED guiVars

NextCrash ==
    \/ Load \/ AddBox
    \/ SaveBegin \/ SaveOpen \/ SaveWrite \/ SaveReplace \/ SaveFails
    \/ Crash \/ Restart

SpecCrash == InitEdit /\ [][NextCrash]_vars

(* The complete record the save in progress writes *)
NewRecord == JsonFile(json_dumps(session[1].payload))

(* C16: at every point of a save, a crash or an I/O error between two of   *)
(* its steps included, the file at the annotation path holds the complete  *)
(* previous record or the complete new one; the record is written to the   *)
(* sibling tmp file, which is then renamed over the path, and the path is   *)
(* never written directly.                                                 *)
C16_SaveAtomic ==
    [][/\ savePc' # "idle" => file' \in {saveOld', NewRecord'}
       /\ savePc # "idle" /\ file' # file =>
            /\ savePc = "written"
            /\ tmp = NewRecord
            /\ file' = tmp
            /\ tmp' = AbsentFile
       /\ Saving /\ savePc' = "idle" /\ ~raised' => file' = NewRecord']_vars

(* The process died while the new record was being written to tmp: the     *)
(* path still holds the previous record, which differs from the new one    *)
C16_Witness ==
    /\ savePc = "crashed"
    /\ tmp.kind = "partial"
    /\ file = saveOld
    /\ file.kind = "json"
    /\ file # NewRecord

----------------------------------------------------------------------------
(* Properties of delete_box as to identity *)

(* C30: delete_box removes the very dict it is given and no other; when    *)
(* that dict is not in the session's list nothing is removed, even if the   *)
(* list holds another dict with equal id, bbox and score.                  *)
C30_DeleteByIdentity ==
    [][lastOp' = "delete_box" =>
         IF target' \in RefSet(refs)
         THEN refs' = SelectSeq(refs, LAMBDA r : r # target')
         ELSE refs' = refs /\ After.detections = Before.detections]_vars

----------------------------------------------------------------------------
(* paths.py: map_output_path as a pure function.  A path is the sequence   *)
(* of its components; a component is the sequence of the parts of its name  *)
(* between dots, so "x.tar.png" is <<"x", "tar", "png">> and ".x" is         *)
(* <<"", "x">>.  A suffix is given without its dot.                         *)

MaxDepth == 2   \* most directories between the input root and the image

(* PurePath.relative_to: the path is below root *)
IsBelow(path, root) ==
    /\ Len(path) >= Len(root)
    /\ SubSeq(path, 1, Len(root)) = root

relative_to(path, root) == SubSeq(path, Len(root) + 1, Len(path))

(* PurePath.suffix of a name is not empty: a dot that is neither the first *)
(* nor the last character of the name                                      *)
HasSuffix(name) ==
    /\ Len(name) >= 2
    /\ name[Len(name)] # ""
    /\ ~(Len(name) = 2 /\ name[1] = "")

(* PurePath.with_suffix: the suffix of the last component is replaced, or  *)
(* the new one is appended when the name has none.                         *)
with_suffix(path, suffix) ==
    LET name == path[Len(path)]
        renamed == IF HasSuffix(name)
                   THEN Append(SubSeq(name, 1, Len(name) - 1), suffix)
                   ELSE Append(name, suffix)
    IN  Append(SubSeq(path, 1, Len(path) - 1), renamed)

(* map_output_path that keeps only the file name *)
map_output_path_flat(output_dir, input_dir, image_path, suffix) ==
    [raised |-> ~IsBelow(image_path, input_dir),
     path |-> with_suffix(Append(output_dir, image_path[Len(image_path)]), suffix)]

(* paths.py: map_output_path.  relative_to raises ValueError when the      *)
(* image is not below input_dir.                                           *)
map_output_path(output_dir, input_dir, image_path, suffix) ==
    IF ~IsBelow(image_path, input_dir)
    THEN [raised |-> TRUE, path |-> <<>>]
    ELSE [raised |-> FALSE,
          path |-> with_suffix(output_dir \o relative_to(image_path, input_dir), suffix)]

(* The roots, the directories, the image names and the suffixes used *)
PathRoots == {<<<<"in">>>>, <<<<"data">>, <<"in">>>>, <<<<"out">>>>}
PathDirs == {<<"sub">>, <<"v1", "2">>}
ImageNames == {<<"x", "png">>, <<"x", "tar", "png">>, <<"x", "JPG">>, <<"", "x", "png">>}
Suffixes == {"json", "txt"}

InitPaths ==
    /\ \E output_dir \in PathRoots, input_dir \in PathRoots, root \in PathRoots,
          dirs \in SeqsUpTo(PathDirs, MaxDepth), name \in ImageNames, suffix \in Suffixes :
         pathIn = [output_dir |-> output_dir, input_dir |-> input_dir,
                   image_path |-> Append(root \o dirs, name), suffix |-> suffix]
    /\ pathOut = <<>>
    /\ imgW = 1
    /\ imgH = 1
    /\ file = AbsentFile
    /\ tmp = AbsentFile
    /\ session = <<>>
    /\ report = <<>>
    /\ lastOp = "init"
    /\ raised = FALSE
    /\ cIn = <<0, 0, 0, 0>>
    /\ cOut = <<>>
    /\ refs = <<>>
    /\ held = <<>>
    /\ target = 0
    /\ everIds = {}
    /\ ops = 0
    /\ savePc = "idle"
    /\ saveOld = AbsentFile
    /\ pointer = <<>>
    /\ addMode = FALSE
    /\ rubberStart = <<>>
    /\ rubberRect = <<>>
    /\ emitted = <<>>
    /\ disk = <<>>
    /\ entry = 0
    /\ shown = <<>>
    /\ listCur = 0
    /\ saveOk = TRUE
    /\ message = ""
    /\ boxRows = <<>>
    /\ boxCur = 0
    /\ boxSel = 0
    /\ items = <<>>
    /\ canvasSel = 0
    /\ rounds = 0

MapStep ==
    /\ pathOut = <<>>
    /\ pathOut' = <<map_output_path(pathIn.output_dir, pathIn.input_dir,
                                    pathIn.image_path, pathIn.suffix)>>
    /\ UNCHANGED <<imgW, imgH, file, tmp, session, report, lastOp, raised, cIn, cOut,
                   refs, held, target, everIds, ops, savePc, saveOld, pathIn, pointer,
                   addMode, rubberStart, rubberRect, emitted, disk, entry, shown, listCur, saveOk,
                   message, boxRows, boxCur, boxSel, items, canvasSel, rounds>>

NextPaths == MapStep

SpecPaths == InitPaths /\ [][NextPaths]_vars

(* The directories between the input root and the image, and its name *)
SubDirs == SubSeq(pathIn.image_path, Len(pathIn.input_dir) + 1, Len(pathIn.image_path) - 1)
ImageName == pathIn.image_path[Len(pathIn.image_path)]

(* C29: for an image below the input root, map_output_path returns the     *)
(* output root, then the directories between the input root and the image, *)
(* then the image's name with its extension replaced by the suffix.        *)
C29_MapOutputPath ==
    pathOut # <<>> /\ IsBelow(pathIn.image_path, pathIn.input_dir) =>
      /\ ~pathOut[1].raised
      /\ pathOut[1].path =
           pathIn.output_dir \o SubDirs
             \o <<Append(SubSeq(ImageName, 1, Len(ImageName) - 1), pathIn.suffix)>>

(* in/sub/x.png with suffix .json was mapped to out/sub/x.json *)
C29_Witness ==
    /\ pathOut # <<>>
    /\ pathIn.image_path = <<<<"in">>, <<"sub">>, <<"x", "png">>>>
    /\ pathIn.input_dir = <<<<"in">>>>
    /\ pathOut[1].path = <<<<"out">>, <<"sub">>, <<"x", "json">>>>

----------------------------------------------------------------------------
(* The variables by the part of the program that owns them, and their      *)
(* values while that part is not in use.                                   *)

storeVars == <<file, tmp, report, raised, cIn, cOut, refs, held, target, everIds, ops,
               savePc, saveOld>>
pathVars == <<pathIn, pathOut>>
rubberVars == <<addMode, rubberStart, rubberRect, emitted>>
imageVars == <<disk, entry, shown, listCur, saveOk, message>>
boxViewVars == <<boxRows, boxCur, boxSel, items, canvasSel, rounds>>

NoStore ==
    /\ file = AbsentFile
    /\ tmp = AbsentFile
    /\ report = <<>>
    /\ raised = FALSE
    /\ cIn = <<0, 0, 0, 0>>
    /\ cOut = <<>>
    /\ refs = <<>>
    /\ held = <<>>
    /\ target = 0
    /\ everIds = {}
    /\ ops = 0
    /\ savePc = "idle"
    /\ saveOld = AbsentFile

NoPaths == pathIn = <<>> /\ pathOut = <<>>

NoRubber == addMode = FALSE /\ rubberStart = <<>> /\ rubberRect = <<>> /\ emitted = <<>>

NoImages ==
    /\ disk = <<>>
    /\ entry = 0
    /\ shown = <<>>
    /\ listCur = 0
    /\ saveOk = TRUE
    /\ message = ""

NoBoxViews ==
    /\ boxRows = <<>>
    /\ boxCur = 0
    /\ boxSel = 0
    /\ items = <<>>
    /\ canvasSel = 0
    /\ rounds = 0

(* The session load returns for a record of the given "detections" list *)
SessionOf(w, h, q) == load(EditFile(w, h, q), AbsentFile, w, h, "ok").session

----------------------------------------------------------------------------
(* Dragging the corner handles of one box: every move of the pointer is an *)
(* ItemPositionChange of the handle that is held.                          *)

(* The boxes a drag starts from: the box of one pixel at the origin and    *)
(* the box that fills the image.  The moves take the corners from there to *)
(* every other valid box.                                                  *)
StartBoxes(w, h) == {<<0, 0, One, One>>, <<0, 0, w * One, h * One>>}

InitDrag ==
    /\ imgW \in EditDims
    /\ imgH \in EditDims
    /\ \E b \in StartBoxes(imgW, imgH) :
         session = <<SessionOf(imgW, imgH, <<Det(JInt(0), BBox(b[1], b[2], b[3], b[4]), Score)>>)>>
    /\ pointer = <<>>
    /\ lastOp = "load"
    /\ NoStore
    /\ NoPaths
    /\ NoRubber
    /\ NoImages
    /\ NoBoxViews

(* CornerHandle.itemChange for a move of the pointer to any position,      *)
(* before, in or beyond the image on each axis.  pointer keeps which       *)
(* handle is held and, per axis, whether the position asked for was        *)
(* refused.                                                                *)
HandleMove ==
    /\ \E corner \in {"tl", "br"}, x \in Coords, y \in Coords :
         \E det \in {handle_move(session[1].detections[1], corner, <<x, y>>, imgW, imgH)} :
           LET b == Floats(det.bbox)
               p == IF corner = "tl" THEN <<b[1], b[2]>> ELSE <<b[3], b[4]>>
           IN  /\ session' = <<[session[1] EXCEPT !.detections[1] = det]>>
               /\ pointer' = <<[corner |-> corner, refused |-> <<p[1] # x, p[2] # y>>]>>
    /\ lastOp' = "handle_move"
    /\ UNCHANGED <<imgW, imgH, storeVars, pathVars, rubberVars, imageVars, boxViewVars>>

(* CornerHandle.mouseReleaseEvent: BBoxItem.notify_edited and              *)
(* MainWindow._on_box_edited, which sets dirty.                            *)
HandleRelease ==
    /\ pointer # <<>>
    /\ session' = <<[session[1] EXCEPT !.dirty = TRUE]>>
    /\ pointer' = <<>>
    /\ lastOp' = "handle_release"
    /\ UNCHANGED <<imgW, imgH, storeVars, pathVars, rubberVars, imageVars, boxViewVars>>

NextDrag == HandleMove \/ HandleRelease

SpecDrag == InitDrag /\ [][NextDrag]_vars

(* The two corners of the box that is dragged *)
TopLeft == <<Floats(session[1].detections[1].bbox)[1], Floats(session[1].detections[1].bbox)[2]>>
BottomRight == <<Floats(session[1].detections[1].bbox)[3], Floats(session[1].detections[1].bbox)[4]>>

(* C27: through every sequence of handle moves on a box that starts valid, *)
(* whatever positions the pointer asks for, top-left.x + 1 <=              *)
(* bottom-right.x, top-left.y + 1 <= bottom-right.y, top-left >= (0, 0)    *)
(* and bottom-right <= (image_width, image_height).                        *)
C27_CornersNeverCross ==
    /\ TopLeft[1] + One <= BottomRight[1]
    /\ TopLeft[2] + One <= BottomRight[2]
    /\ TopLeft[1] >= 0
    /\ TopLeft[2] >= 0
    /\ BottomRight[1] <= imgW * One
    /\ BottomRight[2] <= imgH * One

(* The top-left handle was pulled past the bottom-right one on both axes   *)
(* and stopped at the least size before it, after the bottom-right handle  *)
(* had been moved away from the far corner of the image.                   *)
C27_Witness ==
    /\ lastOp = "handle_move"
    /\ pointer # <<>>
    /\ pointer[1].corner = "tl"
    /\ pointer[1].refused = <<TRUE, TRUE>>
    /\ TopLeft[1] + One = BottomRight[1]
    /\ TopLeft[2] + One = BottomRight[2]
    /\ TopLeft[1] > 0
    /\ BottomRight[1] < imgW * One

----------------------------------------------------------------------------
(* main_window.py, models.py, canvas.py: the list of boxes and the canvas  *)
(* hold a selection each, and the main window carries a change of one to    *)
(* the other.                                                              *)
(*                                                                         *)
(* rows are the dicts of BoxListModel._detections and items those of the    *)
(* BBoxItems of the canvas, each named by its identity (refs gives the      *)
(* identities of session.detections, in order).  cur is the row of          *)
(* view_boxes.currentIndex(), sel the row its selection model has selected, *)
(* csel the item the scene has selected, 0 for none.  rounds counts the     *)
(* handlers of the main window that ran past their guard in one event.      *)

View == [rows |-> boxRows, cur |-> boxCur, sel |-> boxSel, items |-> items,
         csel |-> canvasSel, rounds |-> rounds]

SetView(v) ==
    /\ boxRows' = v.rows
    /\ boxCur' = v.cur
    /\ boxSel' = v.sel
    /\ items' = v.items
    /\ canvasSel' = v.csel
    /\ rounds' = v.rounds

(* The dict with identity r, a member of the list dets *)
RowDet(dets, rf, r) == dets[CHOOSE k \in 1..Len(rf) : rf[k] = r]

(* The dicts with the identities of q *)
RowDets(dets, rf, q) == [k \in 1..Len(q) |-> RowDet(dets, rf, q[k])]

(* ImageCanvas._det_to_item.get(det_id): the item stored last under a key  *)
(* equal to det_id, 0 for None                                             *)
det_to_item(v, dets, rf, det_id) ==
    LET hits == {k \in 1..Len(v.items) : IdEq(RowDet(dets, rf, v.items[k]).id, det_id)}
    IN  IF hits = {} THEN 0 ELSE CHOOSE k \in hits : \A j \in hits : j <= k

(* _on_canvas_selection_changed past its guard, for the dict r the canvas  *)
(* reports (0: None): clearSelection leaves the current index, and          *)
(* setCurrentIndex(ClearAndSelect) emits currentChanged to                  *)
(* _on_box_selected_in_list, which finds _sync_selection set and returns.   *)
canvas_selection_changed(v, dets, rf, r) ==
    LET cleared == [v EXCEPT !.sel = 0, !.rounds = @ + 1]
        row == IF r = 0 THEN 0
               ELSE index_of(RowDets(dets, rf, v.rows), v.rows, RowDet(dets, rf, r), r)
    IN  IF row = 0 THEN cleared ELSE [cleared EXCEPT !.cur = row, !.sel = row]

(* _on_canvas_selection_changed without lines 302-303 *)
_on_canvas_selection_changed_unguarded(v, dets, rf, r, sync) ==
    canvas_selection_changed(v, dets, rf, r)

(* MainWindow._on_canvas_selection_changed(det); sync is _sync_selection   *)
(* when the signal arrives.                                                *)
_on_canvas_selection_changed(v, dets, rf, r, sync) ==
    IF sync THEN v ELSE canvas_selection_changed(v, dets, rf, r)

(* ImageCanvas._on_scene_selection_changed: boxSelectionChanged is emitted *)
(* with the dict of the selected item or None.                             *)
_on_scene_selection_changed(v, dets, rf, sync) ==
    _on_canvas_selection_changed(v, dets, rf,
                                 IF v.csel = 0 THEN 0 ELSE v.items[v.csel], sync)

(* ImageCanvas.select_detection(det) for the dict r (0: None).  The scene  *)
(* is changed with its signals blocked; the returns at lines 233 and 236   *)
(* leave before _on_scene_selection_changed is called.                     *)
select_detection(v, dets, rf, r, sync) ==
    IF r = 0 \/ ~IsInt(RowDet(dets, rf, r).id)
    THEN [v EXCEPT !.csel = 0]
    ELSE _on_scene_selection_changed(
           [v EXCEPT !.csel = det_to_item(v, dets, rf, RowDet(dets, rf, r).id)],
           dets, rf, sync)

(* MainWindow._on_box_selected_in_list(current, previous) past its guard:  *)
(* the canvas is told while _sync_selection is set.                        *)
_on_box_selected_in_list(v, dets, rf) ==
    select_detection([v EXCEPT !.rounds = @ + 1], dets, rf,
                     IF v.cur = 0 THEN 0 ELSE v.rows[v.cur], TRUE)

(* ImageCanvas.set_boxes(detections): every item is removed, and removing  *)
(* the selected one makes the scene emit selectionChanged with nothing     *)
(* selected; then one item per detection with an int id is made.           *)
set_boxes(v, oldDets, oldRf, dets, rf) ==
    LET gone == IF v.csel = 0 THEN v
                ELSE _on_scene_selection_changed([v EXCEPT !.csel = 0], oldDets, oldRf, FALSE)
    IN  [gone EXCEPT !.items = SelectSeq(rf, LAMBDA r : IsInt(RowDet(dets, rf, r).id))]

(* BoxListModel.set_detections: the model is reset, which leaves the view  *)
(* without a current index and without a selection, and emits neither      *)
(* currentChanged nor selectionChanged.                                    *)
set_detections(v, rf) == [v EXCEPT !.rows = rf, !.cur = 0, !.sel = 0]

(* BoxListModel.append_detection: a row is added after the last *)
append_detection(v, r) == [v EXCEPT !.rows = Append(@, r)]

(* The rows the current index can move to when row k is about to be        *)
(* removed: the view takes the row below and, when there is none, the row   *)
(* above; the selection model takes the row above and, when there is       *)
(* none, the row below.  0: there is no other row.                         *)
Neighbours(v, k) ==
    IF Len(v.rows) = 1 THEN {0}
    ELSE {n \in {k - 1, k + 1} : n >= 1 /\ n <= Len(v.rows)}

(* BoxListModel.remove_detection(det) for the row k index_of found (0:     *)
(* None).  When k is the current row, the current index moves to the row n *)
(* of Neighbours and currentChanged is emitted before the row is gone;      *)
(* the rows after k then move up by one.                                   *)
remove_detection(v, dets, rf, k, n) ==
    IF k = 0 THEN v
    ELSE LET moved == IF v.cur = k
                      THEN _on_box_selected_in_list([v EXCEPT !.cur = n, !.sel = n], dets, rf)
                      ELSE v
             shift(j) == IF j > k THEN j - 1 ELSE j
         IN  [moved EXCEPT !.rows = remove_at(@, k), !.cur = shift(@), !.sel = shift(@)]

----------------------------------------------------------------------------
(* Selecting and deleting boxes: an image is shown, rows of the list and   *)
(* boxes of the canvas are clicked, add mode is switched on, the delete     *)
(* action is used.                                                         *)

(* The "detections" lists of the records: those of EditLists and one of    *)
(* three entries.                                                          *)
SelectLists ==
    EditLists \cup {<<Det(JInt(0), BoxUnit, Score), Det(JInt(1), BoxUnit, Score),
                      Det(JInt(2), BoxUnit, Score)>>}

(* The state _load_image leaves: the session of the record, one row and    *)
(* one item per detection, nothing current and nothing selected.           *)
InitSelect ==
    /\ imgW \in EditDims
    /\ imgH \in EditDims
    /\ \E q \in SelectLists :
         /\ file = EditFile(imgW, imgH, q)
         /\ session = <<SessionOf(imgW, imgH, q)>>
    /\ refs = [k \in 1..Len(session[1].detections) |-> k]
    /\ boxRows = refs
    /\ items = refs
    /\ boxCur = 0
    /\ boxSel = 0
    /\ canvasSel = 0
    /\ rounds = 0
    /\ tmp = AbsentFile
    /\ report = <<>>
    /\ raised = FALSE
    /\ cIn = <<0, 0, 0, 0>>
    /\ cOut = <<>>
    /\ held = <<>>
    /\ target = 0
    /\ everIds = IdSet(session[1].detections)
    /\ ops = 0
    /\ savePc = "idle"
    /\ saveOld = AbsentFile
    /\ lastOp = "load"
    /\ pointer = <<>>
    /\ NoPaths
    /\ NoRubber
    /\ NoImages

(* A row of view_boxes is clicked: it becomes the selected row, and when   *)
(* it was not the current row it becomes that and currentChanged is        *)
(* emitted to _on_box_selected_in_list.                                    *)
ListClick ==
    /\ \E row \in 1..Len(boxRows) :
         /\ target' = row
         /\ SetView(IF row = boxCur
                    THEN [View EXCEPT !.sel = row, !.rounds = 0]
                    ELSE _on_box_selected_in_list(
                           [View EXCEPT !.cur = row, !.sel = row, !.rounds = 0],
                           session[1].detections, refs))
    /\ lastOp' = "list_select"
    /\ UNCHANGED <<imgW, imgH, session, file, tmp, report, raised, cIn, cOut, refs, held,
                   everIds, ops, savePc, saveOld, pointer, pathVars, rubberVars, imageVars>>

(* With add mode off, a box of the canvas that is not selected is clicked, *)
(* or the empty canvas while a box is selected (item 0): the scene emits    *)
(* selectionChanged to _on_scene_selection_changed.  In add mode           *)
(* ImageCanvas.mousePressEvent keeps the press from the scene.             *)
CanvasClick ==
    /\ ~addMode
    /\ \E k \in 0..Len(items) :
         /\ k # canvasSel
         /\ target' = k
         /\ SetView(_on_scene_selection_changed([View EXCEPT !.csel = k, !.rounds = 0],
                                                session[1].detections, refs, FALSE))
    /\ lastOp' = "canvas_select"
    /\ UNCHANGED <<imgW, imgH, session, file, tmp, report, raised, cIn, cOut, refs, held,
                   everIds, ops, savePc, saveOld, pointer, pathVars, rubberVars, imageVars>>

(* ImageCanvas.set_add_mode(enabled), by the toggle of the add action:     *)
(* when the mode is entered the scene's selection is cleared, and          *)
(* selectionChanged is emitted when a box was selected.                    *)
SetAddMode ==
    /\ addMode' = ~addMode
    /\ target' = 0
    /\ SetView(IF addMode \/ canvasSel = 0 THEN [View EXCEPT !.rounds = 0]
               ELSE _on_scene_selection_changed([View EXCEPT !.csel = 0, !.rounds = 0],
                                                session[1].detections, refs, FALSE))
    /\ lastOp' = IF addMode THEN "add_mode_off" ELSE "add_mode"
    /\ UNCHANGED <<imgW, imgH, session, file, tmp, report, raised, cIn, cOut, refs, held,
                   everIds, ops, savePc, saveOld, pointer, pathVars, rubberStart, rubberRect,
                   emitted, imageVars>>

(* MainWindow._delete_selected_box: the dict of the current row goes to    *)
(* delete_box and to remove_detection, which both take the first dict      *)
(* equal to it, and the canvas is rebuilt.  target is the identity of the   *)
(* dict of the current row.                                                *)
DeleteSelected ==
    /\ boxCur # 0
    /\ LET dets == session[1].detections
           r == boxRows[boxCur]
           k == index_of(dets, refs, RowDet(dets, refs, r), r)
           row == index_of(RowDets(dets, refs, boxRows), boxRows, RowDet(dets, refs, r), r)
           ses == delete_box(session[1], k)
           rf == remove_at(refs, k)
       IN  /\ \E n \in Neighbours(View, row) :
                SetView(set_boxes(remove_detection([View EXCEPT !.rounds = 0],
                                                   dets, refs, row, n),
                                  dets, refs, ses.detections, rf))
           /\ session' = <<ses>>
           /\ refs' = rf
           /\ held' = <<[ref |-> refs[k], det |-> dets[k]]>>
           /\ target' = r
    /\ lastOp' = "delete_selected"
    /\ UNCHANGED <<imgW, imgH, file, tmp, report, raised, cIn, cOut, everIds, ops, savePc,
                   saveOld, pointer, pathVars, rubberVars, imageVars>>

NextSelect == ListClick \/ CanvasClick \/ SetAddMode \/ DeleteSelected

SpecSelect == InitSelect /\ [][NextSelect]_vars

(* The id of the detection the list holds as current and of the one the    *)
(* canvas holds as selected, <<>> for none                                 *)
ListId(dets, rf, rows, cur) == IF cur = 0 THEN <<>> ELSE <<RowDet(dets, rf, rows[cur]).id>>
CanvasId(dets, rf, its, csel) == IF csel = 0 THEN <<>> ELSE <<RowDet(dets, rf, its[csel]).id>>

C25_ViewsAgree ==
    [][lastOp' \in {"list_select", "canvas_select", "add_mode"} /\ rounds' >= 1 =>
         ListId(session'[1].detections, refs', boxRows', boxCur')
           = CanvasId(session'[1].detections, refs', items', canvasSel')]_vars

(* C26: when the delete action has finished, the list has no current and   *)
(* no selected row and the canvas has no selected box.                     *)
C26_DeleteClearsSelection ==
    [][lastOp' = "delete_selected" => boxCur' = 0 /\ boxSel' = 0 /\ canvasSel' = 0]_vars

----------------------------------------------------------------------------
(* canvas.py: drawing a new box in add mode *)

(* QRectF(start, cur).normalized() as <<left, top, right, bottom>> *)
normalized(start, cur) ==
    <<Min(start[1], cur[1]), Min(start[2], cur[2]), Max(start[1], cur[1]), Max(start[2], cur[2])>>

(* _clamp_rect that lets the right and bottom edges meet the left and top *)
_clamp_rect_no_min_size(rect, w, h) ==
    LET left == _clamp(rect[1], 0, Max(w * One - One, 0))
        top == _clamp(rect[2], 0, Max(h * One - One, 0))
    IN  <<left, top, _clamp(rect[3], left, w * One), _clamp(rect[4], top, h * One)>>

(* ImageCanvas._clamp_rect *)
_clamp_rect(rect, w, h) ==
    LET left == _clamp(rect[1], 0, Max(w * One - One, 0))
        top == _clamp(rect[2], 0, Max(h * One - One, 0))
        right == _clamp(rect[3], left + One, w * One)
        bottom == _clamp(rect[4], top + One, h * One)
    IN  <<left, top, right, bottom>>

(* MainWindow._on_box_created(bbox): add_box, append_detection, set_boxes  *)
(* and select_detection of the new dict, whose identity is r.  The result:  *)
(* the session, the identities of its detections, the views.               *)
_on_box_created(v, ses, rf, bbox, r) ==
    LET ses2 == add_box(ses, bbox)
        rf2 == Append(rf, r)
        v1 == append_detection([v EXCEPT !.rounds = 0], r)
        v2 == set_boxes(v1, ses.detections, rf, ses2.detections, rf2)
    IN  [session |-> ses2, refs |-> rf2,
         view |-> select_detection(v2, ses2.detections, rf2, r, FALSE)]

(* The scene coordinates of the pointer on each axis: before the image, on *)
(* its edge, less than a pixel in, a pixel in, beyond it.                  *)
MouseCoords == {0 - 1, 0, 1, One, MaxDim * One + 1}

(* An image is shown with none or one box and add mode is on *)
InitCreate ==
    /\ imgW \in EditDims
    /\ imgH \in EditDims
    /\ \E q \in {<<>>, <<Det(JInt(0), BoxUnit, Score)>>} :
         /\ file = EditFile(imgW, imgH, q)
         /\ session = <<SessionOf(imgW, imgH, q)>>
    /\ refs = [k \in 1..Len(session[1].detections) |-> k]
    /\ boxRows = refs
    /\ items = refs
    /\ boxCur = 0
    /\ boxSel = 0
    /\ canvasSel = 0
    /\ rounds = 0
    /\ tmp = AbsentFile
    /\ report = <<>>
    /\ raised = FALSE
    /\ cIn = <<0, 0, 0, 0>>
    /\ cOut = <<>>
    /\ held = <<>>
    /\ target = 0
    /\ everIds = IdSet(session[1].detections)
    /\ ops = 0
    /\ savePc = "idle"
    /\ saveOld = AbsentFile
    /\ lastOp = "load"
    /\ pointer = <<>>
    /\ NoPaths
    /\ addMode = TRUE
    /\ rubberStart = <<>>
    /\ rubberRect = <<>>
    /\ emitted = <<>>
    /\ NoImages

(* ImageCanvas.mousePressEvent in add mode, left button, at the scene      *)
(* point p.  pointer keeps where the button went down and where the        *)
(* pointer is.  One box is drawn in a run.                                 *)
MousePress ==
    /\ addMode
    /\ rubberStart = <<>>
    /\ emitted = <<>>
    /\ \E x \in MouseCoords, y \in MouseCoords :
         /\ rubberStart' = <<<<x, y>>>>
         /\ rubberRect' = <<<<x, y, x, y>>>>
         /\ pointer' = <<[press |-> <<x, y>>, at |-> <<x, y>>]>>
    /\ lastOp' = "mouse_press"
    /\ UNCHANGED <<imgW, imgH, session, addMode, emitted, storeVars, pathVars, imageVars,
                   boxViewVars>>

(* ImageCanvas.mouseMoveEvent while the button is down *)
MouseMove ==
    /\ rubberStart # <<>>
    /\ \E x \in MouseCoords, y \in MouseCoords :
         /\ rubberRect' = <<_clamp_rect(normalized(rubberStart[1], <<x, y>>), imgW, imgH)>>
         /\ pointer' = <<[pointer[1] EXCEPT !.at = <<x, y>>]>>
    /\ lastOp' = "mouse_move"
    /\ UNCHANGED <<imgW, imgH, session, addMode, rubberStart, emitted, storeVars, pathVars,
                   imageVars, boxViewVars>>

(* ImageCanvas.mouseReleaseEvent where the pointer is: the rubber band is  *)
(* taken away, and when its rectangle is at least 1 by 1 boxCreated is     *)
(* emitted to MainWindow._on_box_created.                                  *)
MouseRelease ==
    /\ rubberStart # <<>>
    /\ rubberStart' = <<>>
    /\ rubberRect' = <<>>
    /\ LET rect == rubberRect[1]
       IN  IF rect[3] - rect[1] >= One /\ rect[4] - rect[2] >= One
           THEN \E r \in {_on_box_created(View, session[1], refs, rect, FreshRef)} :
                  /\ emitted' = Append(emitted, rect)
                  /\ cIn' = rect
                  /\ session' = <<r.session>>
                  /\ refs' = r.refs
                  /\ everIds' = everIds \cup IdSet(r.session.detections)
                  /\ SetView(r.view)
           ELSE UNCHANGED <<emitted, cIn, session, refs, everIds, boxViewVars>>
    /\ lastOp' = "mouse_release"
    /\ UNCHANGED <<imgW, imgH, pointer, addMode, file, tmp, report, raised, cOut, held, target,
                   ops, savePc, saveOld, pathVars, imageVars>>

NextCreate == MousePress \/ MouseMove \/ MouseRelease

SpecCreate == InitCreate /\ [][NextCreate]_vars

(* The width and the height of the rectangle from the point where the      *)
(* button went down to the point where it was let go                       *)
DraggedWidth == Max(pointer[1].press[1], pointer[1].at[1]) - Min(pointer[1].press[1], pointer[1].at[1])
DraggedHeight == Max(pointer[1].press[2], pointer[1].at[2]) - Min(pointer[1].press[2], pointer[1].at[2])

(* C28: a gesture whose rectangle from press point to release point is     *)
(* less than 1 wide or less than 1 high creates no box: boxCreated is not   *)
(* emitted and add_box is not called.                                      *)
C28_SmallGestureCreatesNothing ==
    [][lastOp' = "mouse_release" /\ (DraggedWidth < One \/ DraggedHeight < One) =>
         emitted' = emitted /\ session' = session]_vars

----------------------------------------------------------------------------
(* main_window.py: the list of images.  Selecting another image saves the  *)
(* current session and loads the session of that image; the search box      *)
(* gives the list a new model of the images whose path holds the text.      *)

(* relative_path of the images store.list_images() returned, each a        *)
(* sequence of characters; every image has its own json_path.              *)
Images == << <<"a">>, <<"a", "b">> >>

MaxDraws == 1   \* most boxes drawn in one run

(* The texts typed into the search box *)
SearchTexts == {<<>>, <<"A">>, <<"b">>, <<"z">>}

(* str.lower for one character *)
lower(ch) == IF ch = "A" THEN "a" ELSE ch

(* t in path *)
Contains(path, t) ==
    \E i \in 1..(Len(path) + 1) :
      /\ i + Len(t) - 1 <= Len(path)
      /\ \A j \in 1..Len(t) : path[i + j - 1] = t[j]

(* _apply_image_filter: the images the new model lists, in order *)
filtered(text) ==
    LET t == [j \in 1..Len(text) |-> lower(text[j])]
        all == [e \in 1..Len(Images) |-> e]
    IN  IF t = <<>> THEN all
        ELSE SelectSeq(all, LAMBDA e :
                              Contains([j \in 1..Len(Images[e]) |-> lower(Images[e][j])], t))

(* _save_current that clears dirty before the record is written *)
_save_current_dirty_first(cur, d, e, io, r) ==
    IF cur = <<>> THEN [ok |-> TRUE, session |-> cur, disk |-> d, shows |-> <<>>]
    ELSE [ok |-> ~r.raised, session |-> <<[r.session EXCEPT !.dirty = FALSE]>>,
          disk |-> [d EXCEPT ![e] = [file |-> r.file, tmp |-> r.tmp]],
          shows |-> IF r.raised THEN <<io>> ELSE <<>>]

(* What store.save(self._current) did, for the session cur of image e and *)
(* the files d; <<>> when there is no session and save is not called.       *)
saved(cur, d, e, io) ==
    IF cur = <<>> THEN <<>> ELSE save(cur[1], d[e].file, d[e].tmp, io)

(* MainWindow._save_current for the session cur of image e (<<>>: None)    *)
(* and the files d, r being what store.save did with the I/O outcome io:    *)
(* whether it returned True, the session, the files, the text of the        *)
(* message box it showed (str(e) of the exception of save).                *)
_save_current(cur, d, e, io, r) ==
    IF cur = <<>> THEN [ok |-> TRUE, session |-> cur, disk |-> d, shows |-> <<>>]
    ELSE [ok |-> ~r.raised, session |-> <<r.session>>,
          disk |-> [d EXCEPT ![e] = [file |-> r.file, tmp |-> r.tmp]],
          shows |-> IF r.raised THEN <<io>> ELSE <<>>]

(* _select_image_entry: the current row after it, the row of the first     *)
(* listed image with the path of e, the row cur when there is none          *)
_select_image_entry(rows, e, cur) ==
    LET hits == {k \in 1..Len(rows) : rows[k] = e}
    IN  IF hits = {} THEN cur ELSE CHOOSE k \in hits : \A j \in hits : k <= j

(* A switch that goes on whatever the save returned *)
switch_goes_on_always(hasSession, ok) == TRUE

(* Lines 205-210 of _on_image_selected: _load_image is reached when there  *)
(* is no current session or _save_current returned True.                    *)
switch_goes_on(hasSession, ok) == ~hasSession \/ ok

(* The window before __init__ selects the first image: every image has no  *)
(* record yet or a record of one box.                                      *)
InitSwitch ==
    /\ imgW = MaxDim
    /\ imgH = MaxDim
    /\ disk \in [1..Len(Images) ->
                   {[file |-> f, tmp |-> AbsentFile] :
                      f \in {AbsentFile,
                             EditFile(imgW, imgH, <<Det(JInt(0), BoxUnit, Score)>>)}}]
    /\ shown = filtered(<<>>)
    /\ entry = 0
    /\ listCur = 0
    /\ saveOk = TRUE
    /\ message = ""
    /\ session = <<>>
    /\ lastOp = "init"
    /\ pointer = <<>>
    /\ NoStore
    /\ NoPaths
    /\ NoRubber
    /\ NoBoxViews

(* MainWindow._on_image_selected(current, previous) for a change of the    *)
(* current row of view_images to row: by __init__ (row 0 of the code, the   *)
(* first), by a click, by the previous and next actions.  The images        *)
(* QPixmap cannot open are left out.                                       *)
SelectImage ==
    \E row \in 1..Len(shown), ioSave \in IoOutcomes, ioLoad \in IoOutcomes :
      /\ row # listCur
      /\ lastOp = "init" => row = 1
      /\ session = <<>> => ioSave = "ok"
      /\ disk[shown[row]].file.kind # "absent" => ioLoad = "ok"
      /\ \E r \in {saved(session, disk, entry, ioSave)} :
         \E s \in {_save_current(session, disk, entry, ioSave, r)} :
         \E l \in {load(s.disk[shown[row]].file, s.disk[shown[row]].tmp, imgW, imgH, ioLoad)} :
         LET next == shown[row]
             d == [s.disk EXCEPT ![next] = [file |-> l.file, tmp |-> l.tmp]]
             rf == [k \in 1..Len(l.session.detections) |-> k]
         IN  /\ saveOk' = s.ok
             /\ message' = IF s.shows = <<>> THEN message ELSE s.shows[1]
             /\ IF ~switch_goes_on(session # <<>>, s.ok)
                THEN /\ lastOp' = "switch_aborted"
                     /\ listCur' = IF listCur = 0 THEN row
                                   ELSE _select_image_entry(shown, shown[listCur], row)
                     /\ session' = s.session
                     /\ disk' = s.disk
                     /\ raised' = TRUE
                     /\ UNCHANGED <<entry, report, refs, held, everIds, boxViewVars>>
                ELSE IF l.raised
                THEN /\ lastOp' = "load_raised"
                     /\ listCur' = row
                     /\ session' = s.session
                     /\ disk' = d
                     /\ raised' = TRUE
                     /\ UNCHANGED <<entry, report, refs, held, everIds, boxViewVars>>
                ELSE /\ lastOp' = "image_loaded"
                     /\ listCur' = row
                     /\ session' = <<l.session>>
                     /\ entry' = next
                     /\ disk' = d
                     /\ raised' = FALSE
                     /\ report' = <<l.report>>
                     /\ refs' = rf
                     /\ held' = <<>>
                     /\ everIds' = IdSet(l.session.detections)
                     /\ SetView(set_boxes(set_detections([View EXCEPT !.rounds = 0], rf),
                                          <<>>, <<>>, l.session.detections, rf))
      /\ UNCHANGED <<imgW, imgH, file, tmp, cIn, cOut, target, ops, savePc, saveOld, shown,
                     pointer, pathVars, rubberVars>>

(* MainWindow._apply_image_filter(text): setModel gives the view a new     *)
(* selection model, whose current index is invalid.                        *)
ApplyFilter ==
    /\ lastOp # "init"
    /\ \E text \in SearchTexts : shown' = filtered(text)
    /\ listCur' = 0
    /\ lastOp' = "filter"
    /\ UNCHANGED <<imgW, imgH, session, storeVars, pointer, disk, entry, saveOk, message,
                   pathVars, rubberVars, boxViewVars>>

(* A box of one pixel is drawn on the canvas: MainWindow._on_box_created *)
CreateBox ==
    /\ session # <<>>
    /\ ops < MaxDraws
    /\ ops' = ops + 1
    /\ \E r \in {_on_box_created(View, session[1], refs, <<0, 0, One, One>>, FreshRef)} :
         /\ session' = <<r.session>>
         /\ refs' = r.refs
         /\ everIds' = everIds \cup IdSet(r.session.detections)
         /\ SetView(r.view)
    /\ cIn' = <<0, 0, One, One>>
    /\ lastOp' = "box_created"
    /\ raised' = FALSE
    /\ UNCHANGED <<imgW, imgH, file, tmp, report, cOut, held, target, savePc, saveOld,
                   pointer, pathVars, rubberVars, imageVars>>

(* The save action: MainWindow._save_current *)
SaveCurrent ==
    /\ session # <<>>
    /\ \E io \in IoOutcomes :
         \E r \in {saved(session, disk, entry, io)} :
         \E s \in {_save_current(session, disk, entry, io, r)} :
           /\ saveOk' = s.ok
           /\ message' = IF s.shows = <<>> THEN message ELSE s.shows[1]
           /\ session' = s.session
           /\ disk' = s.disk
           /\ raised' = ~s.ok
    /\ lastOp' = "save_current"
    /\ UNCHANGED <<imgW, imgH, file, tmp, report, cIn, cOut, refs, held, target, everIds, ops,
                   savePc, saveOld, pointer, entry, shown, listCur, pathVars, rubberVars,
                   boxViewVars>>

NextSwitch == SelectImage \/ ApplyFilter \/ CreateBox \/ SaveCurrent

SpecSwitch == InitSwitch /\ [][NextSwitch]_vars

(* C21: when the save of the outgoing session fails during a switch, the   *)
(* new image is not loaded, the outgoing session stays the current one and  *)
(* the current row of the image list is the outgoing image again, whatever  *)
(* the list shows.                                                         *)
C21_FailedSwitchReverts ==
    [][lastOp' = "switch_aborted" =>
         /\ entry' = entry
         /\ session'[1].detections = session[1].detections
         /\ listCur' # 0
         /\ shown'[listCur'] = entry]_vars

(* C22: a step that replaces the current session by a newly loaded one     *)
(* happens only when _save_current has just returned True and the file of   *)
(* the outgoing image holds the detections of the outgoing session, or      *)
(* when there was no current session.                                      *)
C22_SwitchOnlyAfterSave ==
    [][lastOp' = "image_loaded" /\ session # <<>> =>
         /\ saveOk'
         /\ disk'[entry].file.kind = "json"
         /\ disk'[entry].file.payload.detections = JList(session[1].detections)]_vars

(* The second image was loaded after a box was drawn on the first, and the *)
(* file of the first holds that box.                                       *)
C22_Witness ==
    /\ lastOp = "image_loaded"
    /\ entry = 2
    /\ saveOk
    /\ ops = 1
    /\ disk[1].file.kind = "json"
    /\ \E k \in 1..Len(disk[1].file.payload.detections.v) :
         disk[1].file.payload.detections.v[k].bbox = FloatList(cIn)

----------------------------------------------------------------------------
(* The clamp of the canvas and the clamp of the store on the same          *)
(* rectangle: mouseMoveEvent hands a normalized rectangle to _clamp_rect,   *)
(* and add_box hands the rectangle of the gesture to _clamp_bbox.          *)

(* QRectF.normalized() gives left <= right and top <= bottom *)
NormalizedRects == {r \in [1..4 -> Coords] : r[1] <= r[3] /\ r[2] <= r[4]}

InitRect ==
    /\ imgW \in Dims
    /\ imgH \in Dims
    /\ cIn \in NormalizedRects
    /\ rubberRect = <<>>
    /\ cOut = <<>>
    /\ session = <<>>
    /\ lastOp = "init"
    /\ pointer = <<>>
    /\ addMode = TRUE
    /\ rubberStart = <<>>
    /\ emitted = <<>>
    /\ file = AbsentFile
    /\ tmp = AbsentFile
    /\ report = <<>>
    /\ raised = FALSE
    /\ refs = <<>>
    /\ held = <<>>
    /\ target = 0
    /\ everIds = {}
    /\ ops = 0
    /\ savePc = "idle"
    /\ saveOld = AbsentFile
    /\ NoPaths
    /\ NoImages
    /\ NoBoxViews

(* The rectangle goes through _clamp_rect, as in mouseMoveEvent, and       *)
(* through _clamp_bbox.                                                    *)
ClampRect ==
    /\ rubberRect = <<>>
    /\ rubberRect' = <<_clamp_rect(cIn, imgW, imgH)>>
    /\ cOut' = <<_clamp_bbox(cIn, imgW, imgH)>>
    /\ lastOp' = "clamp_rect"
    /\ UNCHANGED <<imgW, imgH, cIn, session, pointer, addMode, rubberStart, emitted, file, tmp,
                   report, raised, refs, held, target, everIds, ops, savePc, saveOld, pathVars,
                   imageVars, boxViewVars>>

(* The rectangle _clamp_rect gave goes through _clamp_bbox, as in add_box  *)
ClampCreated ==
    /\ rubberRect # <<>>
    /\ Len(cOut) = 1
    /\ cOut' = Append(cOut, _clamp_bbox(rubberRect[1], imgW, imgH))
    /\ lastOp' = "clamp_created"
    /\ UNCHANGED <<imgW, imgH, cIn, session, pointer, addMode, rubberStart, rubberRect, emitted,
                   file, tmp, report, raised, refs, held, target, everIds, ops, savePc, saveOld,
                   pathVars, imageVars, boxViewVars>>

NextRect == ClampRect \/ ClampCreated

SpecRect == InitRect /\ [][NextRect]_vars

(* C35: for every normalized rectangle and every image of at least 1 by 1, *)
(* _clamp_rect gives the rectangle _clamp_bbox gives, and _clamp_bbox      *)
(* leaves the rectangle _clamp_rect gave as it is.                         *)
C35_ClampsAgree ==
    /\ rubberRect # <<>> => rubberRect[1] = cOut[1]
    /\ Len(cOut) = 2 => cOut[2] = rubberRect[1]

(* A rectangle of no width beyond the right edge was moved in and widened  *)
(* to one pixel by both clamps, and add_box left it so.                    *)
C35_Witness ==
    /\ Len(cOut) = 2
    /\ cIn[1] = cIn[3]
    /\ cIn[1] > imgW * One
    /\ rubberRect[1][1] = imgW * One - One
    /\ rubberRect[1][3] = imgW * One
    /\ cOut[2] = rubberRect[1]

----------------------------------------------------------------------------
(* store.py: list_images over the files of the input directory *)

(* str.lower of an extension *)
suffix_lower(s) == IF s = "PNG" THEN "png" ELSE IF s = "JPG" THEN "jpg" ELSE s

(* PurePath.suffix without its dot, "" when the name has none *)
suffix_of(path) ==
    LET name == path[Len(path)]
    IN  IF HasSuffix(name) THEN name[Len(name)] ELSE ""

(* What the input directory may hold, in the order sort() gives paths *)
InputDir == <<<<"in">>>>
OutputDir == <<<<"out">>>>
Listing ==
    << [path |-> InputDir \o <<<<"a", "jpg">>>>, is_file |-> TRUE],
       [path |-> InputDir \o <<<<"a", "png">>>>, is_file |-> TRUE],
       [path |-> InputDir \o <<<<"a", "txt">>>>, is_file |-> TRUE],
       [path |-> InputDir \o <<<<"b", "PNG">>>>, is_file |-> TRUE],
       [path |-> InputDir \o <<<<"sub">>>>, is_file |-> FALSE],
       [path |-> InputDir \o <<<<"sub">>, <<"a", "png">>>>, is_file |-> TRUE] >>

(* The configured extensions, without their dots *)
ExtensionLists == {<<"png">>, <<"png", "jpg", "jpeg">>, <<"PNG", "jpg">>}

(* paths.py: iter_image_files.  glob("*") gives the children of the input  *)
(* directory and rglob("*") everything below it.                           *)
iter_image_files(present, input_dir, recursive, extensions) ==
    LET exts == {suffix_lower(extensions[i]) : i \in 1..Len(extensions)}
        candidate(p) ==
            /\ p \in present
            /\ IsBelow(p.path, input_dir)
            /\ IF recursive THEN Len(p.path) > Len(input_dir)
                            ELSE Len(p.path) = Len(input_dir) + 1
    IN  SelectSeq(Listing,
                  LAMBDA p : /\ candidate(p)
                             /\ p.is_file
                             /\ suffix_lower(suffix_of(p.path)) \in exts)

(* store.py: ImageEntry of one image *)
ImageEntry(output_dir, input_dir, image_path) ==
    [image_path |-> image_path,
     relative_path |-> relative_to(image_path, input_dir),
     json_path |-> map_output_path(output_dir, input_dir, image_path, "json").path]

(* store.py: list_images *)
list_images(present, output_dir, input_dir, recursive, extensions) ==
    LET images == iter_image_files(present, input_dir, recursive, extensions)
    IN  [i \in 1..Len(images) |-> ImageEntry(output_dir, input_dir, images[i].path)]

InitList ==
    /\ \E present \in SUBSET {Listing[i] : i \in 1..Len(Listing)},
          recursive \in BOOLEAN, extensions \in ExtensionLists :
         /\ \A p \in present : Len(p.path) > Len(InputDir) + 1 =>
              \E d \in present : ~d.is_file /\ d.path = SubSeq(p.path, 1, Len(p.path) - 1)
         /\ pathIn = [present |-> present, recursive |-> recursive,
                      extensions |-> extensions]
    /\ pathOut = <<>>
    /\ imgW = 1
    /\ imgH = 1
    /\ session = <<>>
    /\ lastOp = "init"
    /\ pointer = <<>>
    /\ NoStore
    /\ NoRubber
    /\ NoImages
    /\ NoBoxViews

ListImages ==
    /\ pathOut = <<>>
    /\ pathOut' = <<list_images(pathIn.present, OutputDir, InputDir, pathIn.recursive,
                                pathIn.extensions)>>
    /\ lastOp' = "list_images"
    /\ UNCHANGED <<imgW, imgH, session, pointer, pathIn, storeVars, rubberVars, imageVars,
                   boxViewVars>>

NextList == ListImages

SpecList == InitList /\ [][NextList]_vars

(* C38: any two distinct images list_images returns, two that differ only  *)
(* in extension included, have distinct json_path values.                  *)
C38_OwnAnnotationFile ==
    pathOut # <<>> =>
      \A i \in 1..Len(pathOut[1]), j \in 1..Len(pathOut[1]) :
        pathOut[1][i].image_path # pathOut[1][j].image_path =>
          pathOut[1][i].json_path # pathOut[1][j].json_path

----------------------------------------------------------------------------
(* The delete action and the selection of the canvas *)

(* C39: when the canvas shows no selected box, after a click on empty      *)
(* canvas, after add mode was entered or after a deletion, the delete       *)
(* action removes nothing and leaves the session unchanged.                *)
C39_DeleteNeedsCanvasSelection ==
    [][lastOp' = "delete_selected" /\ canvasSel = 0 => session' = session]_vars

----------------------------------------------------------------------------
(* main_window.py: the window as a whole.  Images are opened, also ones    *)
(* whose data cannot be read; boxes are selected, drawn, dragged by their   *)
(* handles and deleted; the window is closed.                              *)
(*                                                                         *)
(* held keeps the dicts that are not in session.detections while a row of   *)
(* the list or an item of the canvas still holds them.                     *)

(* What the file of an image holds when it is opened: data get_image_size  *)
(* and QPixmap both read; data whose header get_image_size reads and       *)
(* QPixmap cannot decode; no data get_image_size can read.                 *)
ImageData == {"ok", "no_pixmap", "unreadable"}

(* The identities and the dicts the window can reach: those of the session *)
(* cur, then those of h                                                    *)
heap_refs(rf, h) == rf \o [k \in 1..Len(h) |-> h[k].ref]
heap_dets(cur, h) ==
    (IF cur = <<>> THEN <<>> ELSE cur[1].detections) \o [k \in 1..Len(h) |-> h[k].det]

(* The dicts of the list dets that are not among rf and that the views v   *)
(* hold                                                                    *)
still_held(dets, itemRefs, rf, v) ==
    SelectSeq([k \in 1..Len(itemRefs) |-> [ref |-> itemRefs[k], det |-> dets[k]]],
              LAMBDA e : /\ e.ref \notin RefSet(rf)
                         /\ e.ref \in RefSet(v.rows) \cup RefSet(v.items))

(* The identities of the n dicts json.loads makes, none of them one the    *)
(* views v hold                                                            *)
loaded_refs(n, v) ==
    LET used == RefSet(v.rows) \cup RefSet(v.items)
        base == IF used = {} THEN 0 ELSE CHOOSE m \in used : \A j \in used : j <= m
    IN  [k \in 1..n |-> base + k]

(* The session and the held dicts after the dict with identity r became    *)
(* det                                                                     *)
set_det(cur, rf, h, r, det) ==
    [session |-> IF r \in RefSet(rf)
                 THEN <<[cur[1] EXCEPT
                           !.detections[CHOOSE k \in 1..Len(rf) : rf[k] = r] = det]>>
                 ELSE cur,
     held |-> [k \in 1..Len(h) |-> IF h[k].ref = r THEN [h[k] EXCEPT !.det = det] ELSE h[k]]]

(* CornerHandle.itemChange that takes every change for one of the position *)
itemChange_any_change(det, change, corner, value, w, h) ==
    handle_move(det, corner, value, w, h)

(* CornerHandle.itemChange(change, value) of the handle at corner of the   *)
(* box of det, _updating not set: a change of the position moves the       *)
(* handle and rewrites the detection, any other change is handed to the    *)
(* base class.                                                             *)
itemChange(det, change, corner, value, w, h) ==
    IF change = "ItemPositionChange" THEN handle_move(det, corner, value, w, h) ELSE det

(* BBoxItem.itemChange for ItemSelectedHasChanged: the pen is set and      *)
(* setVisible of both handles reaches CornerHandle.itemChange with a        *)
(* change of visibility, whose value is no point (<<0, 0>> here).           *)
selected_has_changed(det, w, h) ==
    itemChange(itemChange(det, "ItemVisibleHasChanged", "tl", <<0, 0>>, w, h),
               "ItemVisibleHasChanged", "br", <<0, 0>>, w, h)

(* The session and the held dicts after the selection of the scene went    *)
(* from item a to item b of its (0: none)                                  *)
selection_shown(cur, rf, h, its, a, b, w, ht) ==
    LET flip(st, i) ==
            IF i = 0 \/ a = b THEN st
            ELSE set_det(st.session, rf, st.held, its[i],
                         selected_has_changed(
                           RowDet(heap_dets(st.session, st.held), heap_refs(rf, st.held),
                                  its[i]), w, ht))
    IN  flip(flip([session |-> cur, held |-> h], a), b)

(* The handles of item k are shown: its box is the selected one *)
handles_visible(csel, k) == k # 0 /\ csel = k

(* MainWindow._on_box_edited(det) *)
_on_box_edited(cur) == IF cur = <<>> THEN cur ELSE <<[cur[1] EXCEPT !.dirty = TRUE]>>

(* closeEvent that accepts whatever the save returned *)
close_accepted_always(ok) == TRUE

(* MainWindow.closeEvent: the event is accepted when _save_current         *)
(* returned True and ignored when it returned False.                       *)
close_accepted(ok) == ok

(* MainWindow._on_box_created(bbox) when the views may hold dicts h that   *)
(* are not the session's; r is the identity of the new dict.               *)
box_created(v, cur, rf, h, bbox, r) ==
    LET ses2 == add_box(cur[1], bbox)
        rf2 == Append(rf, r)
        v1 == append_detection([v EXCEPT !.rounds = 0], r)
        v2 == set_boxes(v1, heap_dets(cur, h), heap_refs(rf, h), ses2.detections, rf2)
        v3 == select_detection(v2, heap_dets(<<ses2>>, h), heap_refs(rf2, h), r, FALSE)
    IN  [session |-> <<ses2>>, refs |-> rf2, view |-> v3,
         held |-> still_held(heap_dets(<<ses2>>, h), heap_refs(rf2, h), rf2, v3)]

(* The row remove_detection finds for the dict of the current row of v *)
current_row(v, dets, rf) ==
    index_of(RowDets(dets, rf, v.rows), v.rows, RowDet(dets, rf, v.rows[v.cur]), v.rows[v.cur])

(* MainWindow._delete_selected_box past its guards: delete_box and         *)
(* remove_detection each take the first dict that is or equals the dict of  *)
(* the current row, and the canvas is rebuilt from the session.  n is the   *)
(* row the current index moves to.                                         *)
_delete_selected_box(v, cur, rf, h, n) ==
    LET hd == heap_dets(cur, h)
        hr == heap_refs(rf, h)
        r == v.rows[v.cur]
        k == index_of(cur[1].detections, rf, RowDet(hd, hr, r), r)
        ses == delete_box(cur[1], k)
        rf2 == IF k = 0 THEN rf ELSE remove_at(rf, k)
        v1 == remove_detection([v EXCEPT !.rounds = 0], hd, hr, current_row(v, hd, hr), n)
        v2 == set_boxes(v1, hd, hr, ses.detections, rf2)
    IN  [session |-> <<ses>>, refs |-> rf2, view |-> v2,
         held |-> still_held(hd, hr, rf2, v2)]

(* The steps after which the program runs no more *)
Running == lastOp \notin {"close_accepted", "init_unreadable", "init_load_raised"}

(* __init__ is over and the window is shown *)
Shown == Running /\ lastOp # "init"

(* The variables no step of the window changes *)
openFixed == <<imgW, imgH, file, tmp, cIn, cOut, everIds, savePc, saveOld, pathVars,
               rubberStart, rubberRect, emitted, shown>>

(* The outcomes of the file operations of a save or of a load *)
OpenOutcomes == {"ok", "open_fails"}

(* The record of one box, which is in bounds *)
OneBoxFile == EditFile(MaxDim, MaxDim, <<Det(JInt(0), BoxUnit, Score)>>)

(* The positions the pointer drags a handle to: before the image, inside   *)
(* it, beyond it                                                           *)
DragPoints == {<<c, c>> : c \in DragCoords}

(* The window before __init__ selects the first image: the first image has *)
(* a record of one box, the second one has that or no record yet.           *)
InitOpen ==
    /\ imgW = MaxDim
    /\ imgH = MaxDim
    /\ \E f \in {AbsentFile, OneBoxFile} :
         disk = <<[file |-> OneBoxFile, tmp |-> AbsentFile], [file |-> f, tmp |-> AbsentFile]>>
    /\ shown = filtered(<<>>)
    /\ entry = 0
    /\ listCur = 0
    /\ saveOk = TRUE
    /\ message = ""
    /\ session = <<>>
    /\ lastOp = "init"
    /\ pointer = <<>>
    /\ NoStore
    /\ NoPaths
    /\ NoRubber
    /\ NoBoxViews

(* MainWindow._on_image_selected(current, previous) for a change of the    *)
(* current row of view_images to row, by __init__ (the first row), by a     *)
(* click or by the previous and next actions, the file of the image         *)
(* holding data.  An exception leaves the handler uncaught; one raised      *)
(* under __init__ ends the program.                                        *)
OpenImage ==
    /\ Running
    /\ pointer = <<>>
    /\ \E row \in 1..Len(shown), ioSave \in OpenOutcomes, ioLoad \in OpenOutcomes,
          data \in ImageData :
      /\ row # listCur
      /\ lastOp = "init" => row = 1
      /\ session = <<>> => ioSave = "ok"
      /\ disk[shown[row]].file.kind # "absent" \/ data = "unreadable" => ioLoad = "ok"
      /\ \E r \in {saved(session, disk, entry, ioSave)} :
         \E s \in {_save_current(session, disk, entry, ioSave, r)} :
         \E l \in {load(s.disk[shown[row]].file, s.disk[shown[row]].tmp, imgW, imgH, ioLoad)} :
         LET next == shown[row]
             d == [s.disk EXCEPT ![next] = [file |-> l.file, tmp |-> l.tmp]]
         IN  /\ saveOk' = s.ok
             /\ IF ~switch_goes_on(session # <<>>, s.ok)
                THEN /\ lastOp' = "switch_aborted"
                     /\ listCur' = IF listCur = 0 THEN row
                                   ELSE _select_image_entry(shown, shown[listCur], row)
                     /\ session' = s.session
                     /\ disk' = s.disk
                     /\ raised' = FALSE
                     /\ message' = s.shows[1]
                     /\ UNCHANGED <<entry, report, refs, held, boxViewVars>>
                ELSE IF data = "unreadable"
                THEN /\ lastOp' = IF lastOp = "init" THEN "init_unreadable"
                                  ELSE "image_unreadable"
                     /\ listCur' = row
                     /\ session' = s.session
                     /\ disk' = s.disk
                     /\ raised' = TRUE
                     /\ UNCHANGED <<message, entry, report, refs, held, boxViewVars>>
                ELSE IF l.raised
                THEN /\ lastOp' = IF lastOp = "init" THEN "init_load_raised" ELSE "load_raised"
                     /\ listCur' = row
                     /\ session' = s.session
                     /\ disk' = d
                     /\ raised' = TRUE
                     /\ UNCHANGED <<message, entry, report, refs, held, boxViewVars>>
                ELSE IF data = "no_pixmap"
                THEN \E rf \in {loaded_refs(Len(l.session.detections), View)} :
                     /\ lastOp' = "image_not_shown"
                     /\ listCur' = row
                     /\ session' = <<l.session>>
                     /\ entry' = next
                     /\ disk' = d
                     /\ raised' = FALSE
                     /\ message' = "no_pixmap"
                     /\ report' = <<l.report>>
                     /\ refs' = rf
                     /\ held' = still_held(heap_dets(session, held), heap_refs(refs, held),
                                           rf, View)
                     /\ UNCHANGED boxViewVars
                ELSE \E rf \in {[k \in 1..Len(l.session.detections) |-> k]} :
                     /\ lastOp' = "image_loaded"
                     /\ listCur' = row
                     /\ session' = <<l.session>>
                     /\ entry' = next
                     /\ disk' = d
                     /\ raised' = FALSE
                     /\ report' = <<l.report>>
                     /\ refs' = rf
                     /\ held' = <<>>
                     /\ SetView(set_boxes(set_detections([View EXCEPT !.rounds = 0], rf),
                                          heap_dets(session, held), heap_refs(refs, held),
                                          l.session.detections, rf))
                     /\ UNCHANGED message
    /\ UNCHANGED <<target, ops, pointer, addMode, openFixed>>

(* A row of view_boxes is clicked *)
ClickRow ==
    /\ Shown
    /\ pointer = <<>>
    /\ \E row \in 1..Len(boxRows) :
       \E v \in {IF row = boxCur
                 THEN [View EXCEPT !.sel = row, !.rounds = 0]
                 ELSE _on_box_selected_in_list(
                        [View EXCEPT !.cur = row, !.sel = row, !.rounds = 0],
                        heap_dets(session, held), heap_refs(refs, held))} :
       \E st \in {selection_shown(session, refs, held, items, canvasSel, v.csel, imgW, imgH)} :
         /\ SetView(v)
         /\ session' = st.session
         /\ held' = st.held
    /\ lastOp' = "list_select"
    /\ UNCHANGED <<report, raised, refs, target, ops, pointer, addMode, imageVars, openFixed>>

(* With add mode off, a box of the canvas that is not selected is clicked, *)
(* or the empty canvas while a box is selected (item 0).                   *)
ClickCanvas ==
    /\ Shown
    /\ pointer = <<>>
    /\ ~addMode
    /\ \E k \in 0..Len(items) :
       /\ k # canvasSel
       /\ \E v \in {_on_scene_selection_changed([View EXCEPT !.csel = k, !.rounds = 0],
                                                heap_dets(session, held),
                                                heap_refs(refs, held), FALSE)} :
          \E st \in {selection_shown(session, refs, held, items, canvasSel, v.csel,
                                     imgW, imgH)} :
            /\ SetView(v)
            /\ session' = st.session
            /\ held' = st.held
    /\ lastOp' = "canvas_select"
    /\ UNCHANGED <<report, raised, refs, target, ops, pointer, addMode, imageVars, openFixed>>

(* ImageCanvas.set_add_mode(enabled), by the toggle of the add action *)
ToggleAddMode ==
    /\ Shown
    /\ pointer = <<>>
    /\ addMode' = ~addMode
    /\ \E v \in {IF addMode \/ canvasSel = 0 THEN [View EXCEPT !.rounds = 0]
                 ELSE _on_scene_selection_changed([View EXCEPT !.csel = 0, !.rounds = 0],
                                                  heap_dets(session, held),
                                                  heap_refs(refs, held), FALSE)} :
      \E st \in {selection_shown(session, refs, held, items, canvasSel, v.csel, imgW, imgH)} :
        /\ SetView(v)
        /\ session' = st.session
        /\ held' = st.held
    /\ lastOp' = IF addMode THEN "add_mode_off" ELSE "add_mode"
    /\ UNCHANGED <<report, raised, refs, target, ops, pointer, imageVars, openFixed>>

(* In add mode a box of one pixel is drawn on the canvas: boxCreated goes  *)
(* to MainWindow._on_box_created, which returns at once when there is no    *)
(* session.                                                                *)
DrawBox ==
    /\ Shown
    /\ pointer = <<>>
    /\ addMode
    /\ session # <<>>
    /\ ops < MaxDraws
    /\ ops' = ops + 1
    /\ \E r \in {box_created(View, session, refs, held, <<0, 0, One, One>>, FreshRef)} :
         /\ session' = r.session
         /\ refs' = r.refs
         /\ held' = r.held
         /\ SetView(r.view)
    /\ lastOp' = "box_created"
    /\ UNCHANGED <<report, raised, target, pointer, addMode, imageVars, openFixed>>

(* The delete action: MainWindow._delete_selected_box *)
DeleteCurrent ==
    /\ Shown
    /\ pointer = <<>>
    /\ session # <<>>
    /\ boxCur # 0
    /\ ops < MaxDraws
    /\ ops' = ops + 1
    /\ \E n \in Neighbours(View, current_row(View, heap_dets(session, held),
                                            heap_refs(refs, held))) :
       \E r \in {_delete_selected_box(View, session, refs, held, n)} :
         /\ session' = r.session
         /\ refs' = r.refs
         /\ held' = r.held
         /\ SetView(r.view)
    /\ lastOp' = "delete_selected"
    /\ UNCHANGED <<report, raised, target, pointer, addMode, imageVars, openFixed>>

(* With add mode off, the left button goes down on a handle of item k,     *)
(* which is shown: CornerHandle.mousePressEvent selects the box, which is   *)
(* selected already.  pointer keeps the handle and where both handles       *)
(* stand.                                                                  *)
PressHandle ==
    /\ Shown
    /\ pointer = <<>>
    /\ ~addMode
    /\ \E k \in 1..Len(items), corner \in {"tl", "br"} :
         /\ handles_visible(canvasSel, k)
         /\ LET b == Floats(RowDet(heap_dets(session, held), heap_refs(refs, held),
                                   items[k]).bbox)
            IN  pointer' = <<[corner |-> corner, item |-> k,
                              tl |-> <<b[1], b[2]>>, br |-> <<b[3], b[4]>>]>>
    /\ lastOp' = "handle_press"
    /\ UNCHANGED <<session, report, raised, refs, held, target, ops, addMode, imageVars,
                   boxViewVars, openFixed>>

(* The handle that is held is dragged to a position: CornerHandle.itemChange *)
DragHandleTo ==
    /\ Shown
    /\ pointer # <<>>
    /\ ops < MaxDraws
    /\ ops' = ops + 1
    /\ \E pos \in DragPoints :
         LET h == pointer[1]
             p == constrain_handle(h.corner, pos, h.tl, h.br, imgW, imgH)
             r == items[h.item]
             st == set_det(session, refs, held, r,
                           itemChange(RowDet(heap_dets(session, held),
                                             heap_refs(refs, held), r),
                                      "ItemPositionChange", h.corner, pos, imgW, imgH))
         IN  /\ pointer' = <<IF h.corner = "tl" THEN [h EXCEPT !.tl = p]
                             ELSE [h EXCEPT !.br = p]>>
             /\ session' = st.session
             /\ held' = st.held
    /\ lastOp' = "handle_move"
    /\ UNCHANGED <<report, raised, refs, target, addMode, imageVars, boxViewVars, openFixed>>

(* The button is let go: CornerHandle.mouseReleaseEvent,                   *)
(* BBoxItem.notify_edited and MainWindow._on_box_edited.                   *)
ReleaseHandle ==
    /\ Shown
    /\ pointer # <<>>
    /\ session' = _on_box_edited(session)
    /\ pointer' = <<>>
    /\ lastOp' = "handle_release"
    /\ UNCHANGED <<report, raised, refs, held, target, ops, addMode, imageVars, boxViewVars,
                   openFixed>>

(* The window is asked to close: MainWindow.closeEvent *)
CloseWindow ==
    /\ Shown
    /\ pointer = <<>>
    /\ \E io \in OpenOutcomes :
         /\ session = <<>> => io = "ok"
         /\ \E r \in {saved(session, disk, entry, io)} :
            \E s \in {_save_current(session, disk, entry, io, r)} :
              /\ saveOk' = s.ok
              /\ message' = IF s.shows = <<>> THEN message ELSE s.shows[1]
              /\ session' = s.session
              /\ disk' = s.disk
              /\ lastOp' = IF close_accepted(s.ok) THEN "close_accepted" ELSE "close_ignored"
    /\ raised' = FALSE
    /\ UNCHANGED <<report, refs, held, target, ops, pointer, addMode, entry, listCur,
                   boxViewVars, openFixed>>

NextOpen ==
    \/ OpenImage
    \/ ClickRow
    \/ ClickCanvas
    \/ ToggleAddMode
    \/ DrawBox
    \/ DeleteCurrent
    \/ PressHandle
    \/ DragHandleTo
    \/ ReleaseHandle
    \/ CloseWindow

SpecOpen == InitOpen /\ [][NextOpen]_vars

(* C31: after every handler (an image is opened, with or without success   *)
(* on its data, a box is added, a box is deleted) the rows of the list and  *)
(* the box items of the canvas are the dicts of the current session's       *)
(* detections, in the same order.                                          *)
C31_ViewsShowSession ==
    /\ boxRows = refs
    /\ items = refs

(* The identity of the dict of the box whose handle is held *)
DraggedRef == items[pointer[1].item]

(* C33: when a drag of a corner handle is released, dirty is true and the  *)
(* bbox of the dragged detection in the session is the rectangle the two    *)
(* handles span.                                                           *)
C33_ReleaseMarksDirty ==
    [][lastOp' = "handle_release" =>
         /\ session' # <<>>
         /\ session'[1].dirty
         /\ DraggedRef \in RefSet(refs')
         /\ Floats(RowDet(session'[1].detections, refs', DraggedRef).bbox)
              = pointer[1].tl \o pointer[1].br]_vars

(* The dicts the window reaches before and after a step *)
ReachedRefs == RefSet(heap_refs(refs, held))
ReachedRefsAfter == RefSet(heap_refs(refs', held'))

(* C34: selecting or deselecting a detection in the list or on the canvas  *)
(* and switching add mode on or off leave the detections, next_id and       *)
(* dirty unchanged; within a session a bbox changes only by a move of a     *)
(* handle of the box that is selected on the canvas.                       *)
C34_SelectionKeepsGeometry ==
    [][/\ lastOp' \in {"list_select", "canvas_select", "add_mode", "add_mode_off"} =>
            /\ session'[1].detections = session[1].detections
            /\ session'[1].next_id = session[1].next_id
            /\ session'[1].dirty = session[1].dirty
            /\ held' = held
       /\ lastOp' \notin {"image_loaded", "image_not_shown"} =>
            \A r \in ReachedRefs \cap ReachedRefsAfter :
              RowDet(heap_dets(session', held'), heap_refs(refs', held'), r).bbox
                # RowDet(heap_dets(session, held), heap_refs(refs, held), r).bbox =>
                /\ lastOp' = "handle_move"
                /\ canvasSel # 0
                /\ items[canvasSel] = r]_vars

(* The box was made larger by its handle and then deselected by a click on *)
(* the empty canvas.                                                       *)
C34_Witness ==
    /\ lastOp = "canvas_select"
    /\ canvasSel = 0
    /\ ops = 1
    /\ refs = items
    /\ Len(session[1].detections) = 1
    /\ Floats(session[1].detections[1].bbox)[3] > One

(* C36: the close is accepted only when there is no session or             *)
(* _save_current returned True, the file then holding the detections of     *)
(* the session; when the save fails the close is ignored and the session    *)
(* stays the current one with its detections, next_id and dirty.           *)
C36_CloseNeedsSave ==
    [][lastOp' \in {"close_accepted", "close_ignored"} =>
         /\ lastOp' = "close_accepted" =>
              \/ session = <<>>
              \/ /\ saveOk'
                 /\ disk'[entry].file.kind = "json"
                 /\ disk'[entry].file.payload.detections = JList(session[1].detections)
         /\ ~saveOk' =>
              /\ lastOp' = "close_ignored"
              /\ entry' = entry
              /\ session' # <<>>
              /\ session'[1].detections = session[1].detections
              /\ session'[1].next_id = session[1].next_id
              /\ session'[1].dirty = session[1].dirty]_vars

(* The close was ignored because the file could not be opened, and the box *)
(* that was drawn is still in the session, which is dirty.                 *)
C36_Witness ==
    /\ lastOp = "close_ignored"
    /\ ~saveOk
    /\ message = "open_fails"
    /\ ops = 1
    /\ session[1].dirty
    /\ Len(session[1].detections) = 2
    /\ disk[entry].file = OneBoxFile

(* C37: opening an image whose data is missing or unreadable lets no       *)
(* exception out of the handler and the program keeps running.             *)
C37_UnreadableImageContained ==
    [][lastOp' \in {"image_unreadable", "init_unreadable"} => ~raised' /\ Running']_vars

----------------------------------------------------------------------------
(* The dirty flag and the record on file *)

(* The lists a and b hold the same detections: ids, bboxes and scores, in  *)
(* the same order                                                          *)
SameDetections(a, b) ==
    /\ Len(a) = Len(b)
    /\ \A k \in 1..Len(a) : DictEq(a[k], b[k])

(* C32: when no handler runs and dirty is false, the session and its       *)
(* annotation file hold the same detections: ids, bboxes, scores, order.    *)
C32_DirtyReflectsUnsaved ==
    session # <<>> /\ ~session[1].dirty => SameDetections(session[1].detections, FileEntries)

----------------------------------------------------------------------------
(* Save, then load *)

(* No two detections of the list have the same id *)
ids_unique(detections) ==
    \A j, k \in 1..Len(detections) :
      j # k => ~IdEq(detections[j].id, detections[k].id)

(* C40: a load that follows a successful save of a session with unique ids *)
(* returns the detections of that session (ids, bboxes, scores, order), a  *)
(* report with no dropped id, clamped_count = 0 and no parse failure, and  *)
(* dirty = false.                                                          *)
C40_SaveThenLoadLossless ==
    [][/\ lastOp = "save"
       /\ ~raised
       /\ ids_unique(session[1].detections)
       /\ lastOp' = "load"
       => /\ ~raised'
          /\ session'[1].detections = session[1].detections
          /\ report'[1].dropped_invalid = <<>>
          /\ report'[1].clamped_count = 0
          /\ ~report'[1].json_parse_failed
          /\ ~session'[1].dirty]_vars

(* A box was added out of bounds, the session was saved and loaded again:  *)
(* the box is the last detection of the session and of the record          *)
C40_Witness ==
    /\ lastOp = "load"
    /\ ~raised
    /\ ops = 2
    /\ cIn # <<0, 0, 0, 0>>
    /\ FileEntries # <<>>
    /\ session[1].detections = FileEntries
    /\ Floats(FileEntries[Len(FileEntries)].bbox) = _clamp_bbox(cIn, imgW, imgH)
    /\ Floats(FileEntries[Len(FileEntries)].bbox) # cIn
    /\ ~session[1].dirty

====
